---- MODULE Spec2Model ----
(***************************************************************************)
(* AsyncGate: task engine, lease table, receipt ledger and lease sweeper.  *)
(*                                                                         *)
(* The database is modelled as PostgreSQL at READ COMMITTED: every session *)
(* (one per request handler, one per sweeper tick) buffers its writes and  *)
(* publishes them at commit; UPDATE / DELETE / SELECT FOR UPDATE take row  *)
(* locks that are held until the session commits or rolls back; a plain    *)
(* SELECT reads the committed rows plus the session's own writes.          *)
(* One model step is one SQL statement (or a run of statements that take   *)
(* no lock and read nothing another session can change).                   *)
(*                                                                         *)
(* The rows have the columns the migrations create (alembic/versions):     *)
(* leases carry acquired_at and renewal_count, the task status type has    *)
(* the value running.  Where a declaration in models/ or db/tables.py lags *)
(* behind the migrations and the engine that uses them, the migration is   *)
(* followed; every function body is modelled as it is written.             *)
(***************************************************************************)
EXTENDS Integers, Sequences, FiniteSets, TLC

\* ---------------------------------------------------------------- bounds
MaxTime == 2
MaxLeases == 2
MaxProgress == 1
LeaseTtl == 1
RetryBackoff == 1
MaxRetryBackoff == 2
MaxJitter == 1
max_lease_renewals == 1
max_lease_lifetime == 2
MaxLeaseTtl == 4
MaxLongTime == 3
MaxLedger == 4
MaxRows == 3
MaxThreshold == 2

BreakerTimeout == 1

MaxCount == 3

MaxPageRows == 7
PageLimit == 1

\* ------------------------------------------------------ program constants
default_max_attempts == 2

\* ------------------------------------------------------------- universes
TaskIds == {"t1", "t2"}
Workers == {"w1", "w2"}
Agents == {"agent", "agent2"}
Instances == {"A", "B"}
Clients == Workers \cup Agents
Sessions == Clients \cup Instances
InstanceIdValues == {"", "i1", "i2"}
Owner == "a1"
SYSTEM_PRINCIPAL_ID == "sys:legivellum"
SERVICE_PRINCIPAL_ID == "svc:asyncgate"

\* principal ids of callers and creators; the kind of a principal is fixed
\* by its id
Principals == {"a1", "a2", "ext:a1", SYSTEM_PRINCIPAL_ID}

NoTime == -1
NoLease == 0

TERMINATION_RULES ==
    [o \in {"task.assigned"} |-> {"task.completed", "task.failed", "task.canceled"}]

terminal_states == {"succeeded", "failed", "canceled"}

VARIABLES
    now,          \* the wall clock, in ticks
    instance_id,  \* settings.instance_id of each process
    tasks,        \* committed rows of TaskTable (status "absent": no row)
    leases,       \* committed rows of LeaseTable
    receipts,     \* committed rows of ReceiptTable, in insertion order
    nextLease,    \* source of fresh lease ids (uuid4)
    nProgress,    \* number of report_progress calls made so far
    held,         \* the lease each worker was handed by its last claim
    pc,           \* position of each session in its handler
    loc,          \* the handler's local variables
    buf,          \* the session's uncommitted writes and row locks
    out,          \* what the handler returned or raised
    progress,     \* the tasks that have a committed row in ProgressTable
    breaker       \* the fields of the process's CircuitBreaker object

vars == <<now, instance_id, tasks, leases, receipts, nextLease, nProgress,
          held, pc, loc, buf, out, progress, breaker>>

\* ------------------------------------------------------------ row shapes
AbsentTask ==
    [status |-> "absent", attempt |-> 0, max_attempts |-> 0, nea |-> NoTime,
     result |-> "none", inst |-> "", prio |-> 0, created |-> 0, key |-> "",
     created_by |-> "none", type |-> "none", capabilities |-> {},
     started_at |-> NoTime]

NoLeaseRow ==
    [id |-> NoLease, task |-> "none", worker |-> "none", expires_at |-> 0,
     acquired_at |-> 0, renewal_count |-> 0]

NoHeld == [id |-> NoLease, task |-> "none"]

NoWrites == [t \in {} |-> AbsentTask]

EmptyBuf ==
    [tlock |-> {}, llock |-> {}, wtask |-> NoWrites, del |-> {},
     ins |-> {}, upd |-> {}, rc |-> <<>>]

IdleLoc ==
    [op |-> "none", task |-> "none", lease |-> NoLease, retry |-> FALSE,
     art |-> FALSE, big |-> FALSE, rstatus |-> "none", requeue |-> FALSE,
     ratt |-> 0, rnow |-> 0, todo |-> {}, cur |-> NoLeaseRow, got |-> {},
     seen |-> {}, jitter |-> 0, count |-> 0, sp |-> EmptyBuf, extend |-> 0,
     key |-> "", type |-> "none", parents |-> <<>>, body |-> "none",
     receipt_id |-> 0, cursor |-> 0, listed |-> <<>>, tenant |-> "none",
     principal |-> "none", internal |-> FALSE, capabilities |-> {},
     accept_types |-> {}, started_at |-> NoTime, worker |-> "none"]

Receipt(type, task, lease, parents, to) ==
    [type |-> type, task |-> task, lease |-> lease, parents |-> parents, to |-> to]

\* ------------------------------------------------------- enums and models
never_terminal(status) == FALSE

is_terminal(status) == status \in terminal_states

valid_transitions(status) ==
    CASE status = "queued" -> {"leased", "canceled"}
      [] status = "leased" -> {"succeeded", "failed", "canceled", "queued"}
      [] status = "failed" -> {"queued"}
      [] status = "succeeded" -> {}
      [] status = "canceled" -> {}
      [] OTHER -> {}

can_transition_to(status, new_status) == new_status \in valid_transitions(status)

no_terminal_type(type) == FALSE

is_terminal_type(type) == \E o \in DOMAIN TERMINATION_RULES : type \in TERMINATION_RULES[o]

\* ------------------------------------------------------- session plumbing
Min(a, b) == IF a <= b THEN a ELSE b

WithTask(f, t, row) == [x \in (DOMAIN f) \cup {t} |-> IF x = t THEN row ELSE f[x]]

\* SELECT of a task row by session s: committed row, or s's own pending write
ReadTask(s, t) == IF t \in DOMAIN buf[s].wtask THEN buf[s].wtask[t] ELSE tasks[t]

\* SELECT of lease rows by session s
ReadLeases(s) ==
    {l \in leases : l.id \notin buf[s].del /\ ~(\E u \in buf[s].upd : u.id = l.id)}
        \cup buf[s].upd \cup buf[s].ins

TaskLockedByOther(s, t) == \E o \in Sessions \ {s} : t \in buf[o].tlock

LeaseLockedByOther(s, id) == \E o \in Sessions \ {s} : id \in buf[o].llock

\* ReceiptRepository.get_task_obligation: the task.assigned receipt of a task
get_task_obligation(t) ==
    LET ids == {i \in 1..Len(receipts) :
                    receipts[i].type = "task.assigned" /\ receipts[i].task = t}
    IN IF ids = {} THEN 0 ELSE CHOOSE i \in ids : \A j \in ids : i <= j

ObligationParents(t) == IF get_task_obligation(t) = 0 THEN {} ELSE {get_task_obligation(t)}

\* principals.normalize_external
normalize_external(principal) == IF principal = "ext:a1" THEN "a1" ELSE principal

\* AsyncGateEngine._resolve_obligation_owner
resolve_obligation_owner(created_by) ==
    IF normalize_external(created_by) \in {SYSTEM_PRINCIPAL_ID, SERVICE_PRINCIPAL_ID}
    THEN SYSTEM_PRINCIPAL_ID
    ELSE normalize_external(created_by)

\* the principal every handler addresses its receipts to: obligation.to_,
\* or the owner hint when the task has no obligation
wrong_task_owner(t) == "a2"

task_owner(t) ==
    IF get_task_obligation(t) = 0
    THEN resolve_obligation_owner(tasks[t].created_by)
    ELSE receipts[get_task_obligation(t)].to

\* ReceiptRepository.create: what is stored for an emission, or a ValueError
\* (body over 64 KiB; terminal type without parents)
CreateRaises(type, parents, big) ==
    \/ big
    \/ is_terminal_type(type) /\ parents = {}

StrippedParents(type, parents, art) == {}

StoredParents(type, parents, art) ==
    IF type = "task.completed" /\ ~art THEN {} ELSE parents

\* get_session: commit publishes the buffered writes b of a session
CommittedTasks(b) ==
    [t \in TaskIds |-> IF t \in DOMAIN b.wtask THEN b.wtask[t] ELSE tasks[t]]

CommittedLeases(b) ==
    {l \in leases : l.id \notin b.del /\ ~(\E u \in b.upd : u.id = l.id)}
        \cup {u \in b.upd : \E l \in leases : l.id = u.id /\ l.id \notin b.del}
        \cup b.ins

\* uq_lease_task: a second lease row for the same (tenant, task) is refused
ViolatesLeaseUnique(b) ==
    \E i \in b.ins : \E l \in leases : l.task = i.task /\ l.id \notin b.del

PublishBuf(b) ==
    /\ tasks' = CommittedTasks(b)
    /\ leases' = CommittedLeases(b)
    /\ receipts' = receipts \o b.rc

Publish(s) == PublishBuf(buf[s])

\* an exception path that commits what the handler had written so far
DiscardKeepsWrites(s) == Publish(s)

\* get_session / begin_nested on an exception: the buffered writes are dropped
Discard(s) ==
    /\ UNCHANGED <<tasks, leases, receipts>>

Finish(s, result) ==
    /\ pc' = [pc EXCEPT ![s] = "ret"]
    /\ out' = [out EXCEPT ![s] = result]
    /\ buf' = [buf EXCEPT ![s] = EmptyBuf]

Raise(s, error) ==
    /\ Discard(s)
    /\ Finish(s, error)

\* ---------------------------------------------------------------- Init
InitCommon ==
    /\ now = 0
    /\ tasks = [t \in TaskIds |-> AbsentTask]
    /\ leases = {}
    /\ receipts = <<>>
    /\ nextLease = 1
    /\ nProgress = 0
    /\ held = [w \in Workers |-> NoHeld]
    /\ pc = [s \in Sessions |-> "idle"]
    /\ loc = [s \in Sessions |-> IdleLoc]
    /\ buf = [s \in Sessions |-> EmptyBuf]
    /\ out = [s \in Sessions |-> "none"]
    /\ progress = {}

\* CircuitBreakerConfig with its default values
CircuitBreakerConfig ==
    [failure_threshold |-> 5, timeout_seconds |-> 60,
     half_open_max_calls |-> 3, success_threshold |-> 2]

\* CircuitBreaker.__init__
CircuitBreaker(config) ==
    [state |-> "closed", failure_count |-> 0, success_count |-> 0,
     opened_at |-> NoTime, half_open_calls |-> 0, config |-> config]

Init ==
    /\ InitCommon
    /\ breaker = CircuitBreaker(CircuitBreakerConfig)
    /\ instance_id = [i \in Instances |-> IF i = "A" THEN "i1" ELSE "i2"]

\* the clock
Tick ==
    /\ now < MaxTime
    /\ now' = now + 1
    /\ UNCHANGED <<instance_id, breaker, progress, tasks, leases, receipts, nextLease, nProgress,
                   held, pc, loc, buf, out>>

\* the clock, over a longer horizon
LongTick ==
    /\ now < MaxLongTime
    /\ now' = now + 1
    /\ UNCHANGED <<instance_id, breaker, progress, tasks, leases, receipts, nextLease, nProgress,
                   held, pc, loc, buf, out>>

\* the caller takes the handler's result; the session is closed.  A worker
\* keeps the lease it was granted until complete / fail succeed or the
\* server tells it the lease is gone.
Return(s) ==
    /\ pc[s] = "ret"
    /\ pc' = [pc EXCEPT ![s] = "idle"]
    /\ out' = [out EXCEPT ![s] = "none"]
    /\ loc' = [loc EXCEPT ![s] = IdleLoc]
    /\ held' = IF s \notin Workers THEN held
               ELSE IF out[s] = "granted"
                    THEN [held EXCEPT ![s] = CHOOSE h \in loc[s].got : TRUE]
               ELSE IF \/ out[s] = "LeaseInvalidOrExpired"
                       \/ out[s] = "ok" /\ loc[s].op \in {"complete", "fail"}
                    THEN [held EXCEPT ![s] = NoHeld]
               ELSE held
    /\ UNCHANGED <<now, instance_id, breaker, progress, tasks, leases, receipts, nextLease,
                   nProgress, buf>>

\* ------------------------------------------------------------ create_task
\* AsyncGateEngine.create_task on process i: insert the row, emit task.assigned
\* the row TaskRepository.create inserts on process i (key "": no
\* idempotency_key)
NewTask(i, prio, key) ==
    [status |-> "queued", attempt |-> 0,
     max_attempts |-> default_max_attempts, nea |-> NoTime,
     result |-> "none", inst |-> instance_id[i], prio |-> prio,
     created |-> Cardinality({x \in TaskIds : tasks[x].status # "absent"}),
     key |-> key, created_by |-> Owner, type |-> "job", capabilities |-> {},
     started_at |-> NoTime]

\* create_task by principal created_by: the obligation is addressed to the
\* resolved owner
CreateTaskBy(a, t, i, prio, created_by) ==
    /\ pc[a] = "idle"
    /\ tasks[t].status = "absent"
    /\ tasks' = [tasks EXCEPT ![t] =
                   [NewTask(i, prio, "") EXCEPT !.created_by = created_by]]
    /\ receipts' = Append(receipts,
           Receipt("task.assigned", t, NoLease, {},
                   resolve_obligation_owner(created_by)))
    /\ UNCHANGED <<now, instance_id, breaker, progress, leases, nextLease, nProgress, held, pc,
                   loc, buf, out>>

CreateTask(a, t, i, prio) == CreateTaskBy(a, t, i, prio, Owner)

\* create_task with a type and required capabilities
CreateTaskWith(a, t, i, prio, type, capabilities) ==
    /\ pc[a] = "idle"
    /\ tasks[t].status = "absent"
    /\ tasks' = [tasks EXCEPT ![t] =
                   [NewTask(i, prio, "") EXCEPT !.type = type,
                                                !.capabilities = capabilities]]
    /\ receipts' = Append(receipts, Receipt("task.assigned", t, NoLease, {}, Owner))
    /\ UNCHANGED <<now, instance_id, breaker, progress, leases, nextLease, nProgress, held, pc,
                   loc, buf, out>>

\* a lookup that never finds a row with the key
NoTaskWithKey(key) == {}

\* uq_task_idempotency / _get_by_idempotency_key: the committed rows that
\* carry the key (NULL keys never collide)
TaskWithKey(key) ==
    {t \in TaskIds : tasks[t].status # "absent" /\ key # "" /\ tasks[t].key = key}

\* an INSERT with the key is in flight in another session: the unique index
\* makes this INSERT wait for that transaction to end
KeyInsertPending(s, key) ==
    \E o \in Sessions \ {s} : \E t \in DOMAIN buf[o].wtask :
        key # "" /\ tasks[t].status = "absent" /\ buf[o].wtask[t].key = key

FreshTaskIds ==
    {t \in TaskIds : /\ tasks[t].status = "absent"
                     /\ \A o \in Sessions : t \notin DOMAIN buf[o].wtask}

\* create_task with an idempotency_key: TaskRepository.create inserts the
\* row; on IntegrityError it rolls the session back and returns the row
\* that holds the key
CreateInsert(a, t, i, key, big) ==
    /\ pc[a] = "idle"
    /\ Len(receipts) < MaxLedger
    /\ t \in FreshTaskIds
    /\ ~KeyInsertPending(a, key)
    /\ pc' = [pc EXCEPT ![a] = "create_emit"]
    /\ IF TaskWithKey(key) # {}
       THEN /\ loc' = [loc EXCEPT ![a] =
                  [IdleLoc EXCEPT !.op = "create", !.key = key, !.big = big,
                                  !.task = CHOOSE x \in TaskWithKey(key) : TRUE]]
            /\ buf' = [buf EXCEPT ![a] = EmptyBuf]
       ELSE /\ loc' = [loc EXCEPT ![a] =
                  [IdleLoc EXCEPT !.op = "create", !.key = key, !.big = big,
                                  !.task = t]]
            /\ buf' = [buf EXCEPT ![a] =
                  [EmptyBuf EXCEPT !.wtask = WithTask(@, t, NewTask(i, 0, key))]]
    /\ UNCHANGED <<now, instance_id, breaker, progress, tasks, leases, receipts, nextLease,
                   nProgress, held, out>>

\* create_task: task.assigned for the task that create returned; the
\* request commits
CreateEmit(a) ==
    /\ pc[a] = "create_emit"
    /\ IF CreateRaises("task.assigned", {}, loc[a].big)
       THEN Raise(a, "ValueError")
       ELSE /\ PublishBuf([buf[a] EXCEPT !.rc = @ \o
                  <<Receipt("task.assigned", loc[a].task, NoLease, {}, Owner)>>])
            /\ Finish(a, "ok")
    /\ UNCHANGED <<now, instance_id, breaker, progress, nextLease, nProgress, held, loc>>


\* --------------------------------------------------- claim_tasks (lease_next)
Eligible(t) ==
    /\ tasks[t].status = "queued"
    /\ tasks[t].nea = NoTime \/ tasks[t].nea <= now

\* the position of a row in the table's heap
HeapOrder(t) == IF t = "t1" THEN 1 ELSE 2

\* ORDER BY created_at ASC only
BeforeByAge(a, b) ==
    \/ tasks[a].created < tasks[b].created
    \/ tasks[a].created = tasks[b].created /\ HeapOrder(a) < HeapOrder(b)

\* ORDER BY priority DESC, created_at ASC (rows that tie come in heap order)
Before(a, b) ==
    \/ tasks[a].prio > tasks[b].prio
    \/ tasks[a].prio = tasks[b].prio /\ tasks[a].created < tasks[b].created
    \/ /\ tasks[a].prio = tasks[b].prio
       /\ tasks[a].created = tasks[b].created
       /\ HeapOrder(a) < HeapOrder(b)

\* the same SELECT without SKIP LOCKED (a claim that does not skip rows another
\* claim has locked)
SelectForClaimNoSkip(s, n) ==
    LET cand == {t \in TaskIds : Eligible(t)}
    IN {t \in cand : Cardinality({u \in cand : Before(u, t)}) < n}

\* SELECT ... WHERE status = queued AND eligible ORDER BY ... LIMIT n
\* FOR UPDATE SKIP LOCKED, as issued by session s
SelectForClaim(s, n) ==
    LET cand == {t \in TaskIds : Eligible(t) /\ ~TaskLockedByOther(s, t)}
    IN {t \in cand : Cardinality({u \in cand : Before(u, t)}) < n}

LeaseIdFor(sel, t) == nextLease + Cardinality({u \in sel : Before(u, t)})

NewLease(w, sel, t) ==
    [id |-> LeaseIdFor(sel, t), task |-> t, worker |-> w,
     expires_at |-> now + LeaseTtl, acquired_at |-> now, renewal_count |-> 0]

\* rows that are queued and eligible and that no transaction other than a
\* claim is writing (what a claim call can be said to run against)
ClaimableNow(s) ==
    {t \in TaskIds : Eligible(t) /\
        ~(\E o \in Sessions \ {s} : t \in buf[o].tlock /\ loc[o].op # "claim")}

\* WHERE type IN accept_types, when accept_types is given
AcceptsType(t, accept_types) == accept_types = {} \/ tasks[t].type \in accept_types

\* the SELECT of claim_next with accept_types
SelectTyped(s, n, accept_types) ==
    LET cand == {t \in TaskIds : /\ Eligible(t)
                                 /\ ~TaskLockedByOther(s, t)
                                 /\ AcceptsType(t, accept_types)}
    IN {t \in cand : Cardinality({u \in cand : Before(u, t)}) < n}

\* the capability test made on each selected row
CapabilitiesMatch(t, capabilities) ==
    tasks[t].capabilities = {} \/
        (capabilities # {} /\ tasks[t].capabilities \subseteq capabilities)

\* LeaseRepository.claim_next on the rows sel its SELECT returned and locked,
\* then the task.accepted receipts of lease_next
ClaimRows(w, sel, capabilities, accept_types) ==
    /\ pc[w] = "idle"
    /\ held[w] = NoHeld
    /\ LET got == {t \in sel : CapabilitiesMatch(t, capabilities)}
       IN /\ nextLease + Cardinality(got) <= MaxLeases + 1
          /\ loc' = [loc EXCEPT ![w] =
                       [IdleLoc EXCEPT !.op = "claim",
                                       !.seen = ClaimableNow(w),
                                       !.capabilities = capabilities,
                                       !.accept_types = accept_types,
                                       !.got = {[id |-> LeaseIdFor(got, t), task |-> t] : t \in got}]]
          /\ nextLease' = nextLease + Cardinality(got)
          /\ IF got = {}
             THEN /\ Finish(w, "empty")
             ELSE /\ pc' = [pc EXCEPT ![w] = "claim_commit"]
                  /\ out' = out
                  /\ buf' = [buf EXCEPT ![w] =
                       [EmptyBuf EXCEPT
                          !.tlock = sel,
                          !.wtask = [t \in got |-> [tasks[t] EXCEPT !.status = "leased"]],
                          !.ins = {NewLease(w, got, t) : t \in got},
                          !.rc = [k \in 1..Cardinality(got) |->
                                    LET t == CHOOSE x \in got :
                                               Cardinality({u \in got : Before(u, x)}) = k - 1
                                    IN Receipt("task.accepted", t, LeaseIdFor(got, t),
                                               ObligationParents(t), task_owner(t))]]]
    /\ UNCHANGED <<now, instance_id, breaker, progress, tasks, leases, receipts, nProgress, held>>

\* lease_next without capabilities and accept_types
ClaimSelect(w, n) == ClaimRows(w, SelectForClaim(w, n), {}, {})

\* lease_next with capabilities and accept_types
ClaimSelectWith(w, n, capabilities, accept_types) ==
    ClaimRows(w, SelectTyped(w, n, accept_types), capabilities, accept_types)

ClaimCommit(w) ==
    /\ pc[w] = "claim_commit"
    /\ IF ViolatesLeaseUnique(buf[w])
       THEN Raise(w, "IntegrityError")
       ELSE Publish(w) /\ Finish(w, "granted")
    /\ UNCHANGED <<now, instance_id, breaker, progress, nextLease, nProgress, held, loc>>

\* ------------------------------------------------------------- validation
\* a validation that does not compare expires_at with the clock
validateIgnoringExpiry(s, t, lease_id, w) ==
    \E l \in ReadLeases(s) : l.task = t /\ l.id = lease_id /\ l.worker = w

\* a validation that does not compare the worker
validateAnyWorker(s, t, lease_id, w) ==
    \E l \in ReadLeases(s) : l.task = t /\ l.id = lease_id /\ l.expires_at > now

\* LeaseRepository.validate
validate(s, t, lease_id, w) ==
    \E l \in ReadLeases(s) :
        /\ l.task = t
        /\ l.id = lease_id
        /\ l.worker = w
        /\ l.expires_at > now

\* first statement of start_task / report_progress / complete / fail
Validate(w, op, next) ==
    /\ pc[w] = "idle"
    /\ held[w] # NoHeld
    /\ IF validate(w, held[w].task, held[w].id, w)
       THEN /\ pc' = [pc EXCEPT ![w] = next]
            /\ UNCHANGED <<out, buf>>
       ELSE /\ Finish(w, "LeaseInvalidOrExpired")
    /\ UNCHANGED <<now, instance_id, breaker, progress, tasks, leases, receipts, nextLease, held>>

\* DELETE FROM leases WHERE task_id = t (LeaseRepository.release), as buffered
Released(s, t) ==
    LET ids == {l.id : l \in {x \in ReadLeases(s) : x.task = t}}
    IN [buf[s] EXCEPT !.del = @ \cup ids, !.llock = @ \cup ids,
                      !.ins = {i \in @ : i.task # t}]

ReleaseBlocked(s, t) == \E l \in leases : l.task = t /\ LeaseLockedByOther(s, l.id)

\* ---------------------------------------------------------------- complete
CompleteValidate(w, art, big) ==
    /\ Validate(w, "complete", "complete_get")
    /\ loc' = [loc EXCEPT ![w] =
                 [IdleLoc EXCEPT !.op = "complete", !.task = held[w].task,
                                 !.lease = held[w].id, !.art = art, !.big = big]]
    /\ UNCHANGED nProgress

CompleteGet(w) ==
    /\ pc[w] = "complete_get"
    /\ LET task == ReadTask(w, loc[w].task)
       IN IF ~can_transition_to(task.status, "succeeded")
          THEN Raise(w, "InvalidStateTransition")
          ELSE /\ pc' = [pc EXCEPT ![w] = "complete_update"]
               /\ UNCHANGED <<tasks, leases, receipts, out, buf>>
    /\ UNCHANGED <<now, instance_id, breaker, progress, nextLease, nProgress, held, loc>>

\* savepoint step 1: update_status(SUCCEEDED, result)
CompleteUpdate(w) ==
    /\ pc[w] = "complete_update"
    /\ LET t == loc[w].task
       IN /\ ~TaskLockedByOther(w, t)
          /\ buf' = [buf EXCEPT ![w] =
                [@ EXCEPT !.tlock = @ \cup {t},
                          !.wtask = WithTask(@, t,
                              [tasks[t] EXCEPT !.status = "succeeded",
                                               !.result = "succeeded"])]]
    /\ pc' = [pc EXCEPT ![w] = "complete_release"]
    /\ UNCHANGED <<now, instance_id, breaker, progress, tasks, leases, receipts, nextLease,
                   nProgress, held, loc, out>>

\* savepoint steps 2-4: release the lease, emit task.completed and
\* task.result_ready; then the request commits
CompleteRelease(w) ==
    /\ pc[w] = "complete_release"
    /\ LET t == loc[w].task
           parents == ObligationParents(t)
       IN /\ ~ReleaseBlocked(w, t)
          /\ IF CreateRaises("task.completed", parents, loc[w].big)
             THEN Raise(w, "ValueError")
             ELSE /\ PublishBuf([Released(w, t) EXCEPT !.rc = @ \o
                        <<Receipt("task.completed", t, loc[w].lease,
                                  StoredParents("task.completed", parents, loc[w].art), task_owner(t)),
                          Receipt("task.result_ready", t, NoLease, parents, task_owner(t))>>])
                  /\ Finish(w, "ok")
    /\ UNCHANGED <<now, instance_id, breaker, progress, nextLease, nProgress, held, loc>>

\* -------------------------------------------------------------------- fail
FailValidate(w, retryable, big) ==
    /\ Validate(w, "fail", "fail_get")
    /\ loc' = [loc EXCEPT ![w] =
                 [IdleLoc EXCEPT !.op = "fail", !.task = held[w].task,
                                 !.lease = held[w].id, !.retry = retryable, !.big = big]]
    /\ UNCHANGED nProgress

\* tasks.get and the retry decision, outside the savepoint
FailGet(w) ==
    /\ pc[w] = "fail_get"
    /\ LET task == ReadTask(w, loc[w].task)
       IN loc' = [loc EXCEPT ![w].requeue =
                     loc[w].retry /\ (task.attempt + 1) < task.max_attempts]
    /\ pc' = [pc EXCEPT ![w] = "fail_release"]
    /\ UNCHANGED <<now, instance_id, breaker, progress, tasks, leases, receipts, nextLease,
                   nProgress, held, buf, out>>

\* savepoint step 1: release the lease
FailRelease(w) ==
    /\ pc[w] = "fail_release"
    /\ ~ReleaseBlocked(w, loc[w].task)
    /\ buf' = [buf EXCEPT ![w] = Released(w, loc[w].task)]
    /\ pc' = [pc EXCEPT ![w] =
                 IF loc[w].requeue THEN "fail_requeue_get" ELSE "fail_update"]
    /\ UNCHANGED <<now, instance_id, breaker, progress, tasks, leases, receipts, nextLease,
                   nProgress, held, loc, out>>

\* requeue_with_backoff: the SELECT that yields attempt, and the clock read
FailRequeueGet(w) ==
    /\ pc[w] = "fail_requeue_get"
    /\ loc' = [loc EXCEPT ![w].ratt = ReadTask(w, loc[w].task).attempt + 1,
                          ![w].rnow = now]
    /\ pc' = [pc EXCEPT ![w] = "fail_requeue_update"]
    /\ UNCHANGED <<now, instance_id, breaker, progress, tasks, leases, receipts, nextLease,
                   nProgress, held, buf, out>>

Pow2(n) == IF n <= 0 THEN 1 ELSE IF n = 1 THEN 2 ELSE IF n = 2 THEN 4 ELSE 8

\* base * 2^(attempt-1), capped
backoff(attempt) == Min(RetryBackoff * Pow2(attempt - 1), MaxRetryBackoff)

\* requeue_with_backoff: the UPDATE; then task.retry_scheduled and commit
FailRequeueUpdate(w) ==
    /\ pc[w] = "fail_requeue_update"
    /\ LET t == loc[w].task
           parents == ObligationParents(t)
       IN /\ ~TaskLockedByOther(w, t)
          /\ IF CreateRaises("task.retry_scheduled", parents, loc[w].big)
             THEN Raise(w, "ValueError")
             ELSE /\ PublishBuf([buf[w] EXCEPT
                        !.wtask = WithTask(@, t,
                            [tasks[t] EXCEPT !.status = "queued",
                                             !.attempt = loc[w].ratt,
                                             !.nea = loc[w].rnow + backoff(loc[w].ratt)]),
                        !.rc = @ \o <<Receipt("task.retry_scheduled", t, loc[w].lease,
                                              parents, task_owner(t))>>])
                  /\ Finish(w, "ok")
    /\ UNCHANGED <<now, instance_id, breaker, progress, nextLease, nProgress, held, loc>>

\* terminal path: update_status(FAILED, result), task.failed, task.result_ready
FailUpdate(w) ==
    /\ pc[w] = "fail_update"
    /\ LET t == loc[w].task
           parents == ObligationParents(t)
       IN /\ ~TaskLockedByOther(w, t)
          /\ IF CreateRaises("task.failed", parents, loc[w].big)
             THEN Raise(w, "ValueError")
             ELSE /\ PublishBuf([buf[w] EXCEPT
                        !.wtask = WithTask(@, t,
                            [tasks[t] EXCEPT !.status = "failed", !.result = "failed"]),
                        !.rc = @ \o <<Receipt("task.failed", t, loc[w].lease, parents, task_owner(t)),
                                      Receipt("task.result_ready", t, NoLease, parents, task_owner(t))>>])
                  /\ Finish(w, "ok")
    /\ UNCHANGED <<now, instance_id, breaker, progress, nextLease, nProgress, held, loc>>

\* ------------------------------------------------------------- cancel_task
never_unauthorized(owner, principal, actor_is_internal) == FALSE

\* the authorization test of cancel_task
unauthorized(owner, principal, actor_is_internal) ==
    /\ ~actor_is_internal
    /\ owner = SYSTEM_PRINCIPAL_ID \/ owner # normalize_external(principal)

\* tasks.get, the obligation lookup, the authorization of the calling
\* principal and the terminal check
CancelGetAs(a, t, big, principal, actor_is_internal) ==
    /\ pc[a] = "idle"
    /\ tasks[t].status # "absent"
    /\ loc' = [loc EXCEPT ![a] =
                 [IdleLoc EXCEPT !.op = "cancel", !.task = t, !.big = big,
                                 !.principal = principal,
                                 !.internal = actor_is_internal]]
    /\ IF get_task_obligation(t) = 0
       THEN Raise(a, "ValueError")
       ELSE IF unauthorized(task_owner(t), principal, actor_is_internal)
       THEN Raise(a, "Unauthorized")
       ELSE IF is_terminal(tasks[t].status)
       THEN /\ Finish(a, "not_ok")
            /\ UNCHANGED <<tasks, leases, receipts>>
       ELSE /\ pc' = [pc EXCEPT ![a] = "cancel_release"]
            /\ UNCHANGED <<tasks, leases, receipts, out, buf>>
    /\ UNCHANGED <<now, instance_id, breaker, progress, nextLease, nProgress, held>>

\* cancel_task by the principal that created the tasks of the model
CancelGet(a, t, big) == CancelGetAs(a, t, big, Owner, FALSE)

\* savepoint step 1: release any active lease
CancelRelease(a) ==
    /\ pc[a] = "cancel_release"
    /\ ~ReleaseBlocked(a, loc[a].task)
    /\ buf' = [buf EXCEPT ![a] = Released(a, loc[a].task)]
    /\ pc' = [pc EXCEPT ![a] = "cancel_inner_get"]
    /\ UNCHANGED <<now, instance_id, breaker, progress, tasks, leases, receipts, nextLease,
                   nProgress, held, loc, out>>

\* TaskRepository.cancel: the SELECT; a terminal task is returned untouched
CancelInnerGet(a) ==
    /\ pc[a] = "cancel_inner_get"
    /\ loc' = [loc EXCEPT ![a].rstatus = ReadTask(a, loc[a].task).status]
    /\ pc' = [pc EXCEPT ![a] = "cancel_update"]
    /\ UNCHANGED <<now, instance_id, breaker, progress, tasks, leases, receipts, nextLease,
                   nProgress, held, buf, out>>

\* TaskRepository.cancel: the UPDATE (skipped when the SELECT saw a terminal
\* row); then task.canceled, task.result_ready and commit
CancelUpdate(a) ==
    /\ pc[a] = "cancel_update"
    /\ LET t == loc[a].task
           parents == ObligationParents(t)
           skip == is_terminal(loc[a].rstatus)
       IN /\ skip \/ ~TaskLockedByOther(a, t)
          /\ IF CreateRaises("task.canceled", parents, loc[a].big)
             THEN Raise(a, "ValueError")
             ELSE /\ PublishBuf([buf[a] EXCEPT
                        !.wtask = IF skip THEN @
                                  ELSE WithTask(@, t,
                                       [tasks[t] EXCEPT !.status = "canceled",
                                                        !.result = "canceled"]),
                        !.rc = @ \o <<Receipt("task.canceled", t, NoLease, parents, task_owner(t)),
                                      Receipt("task.result_ready", t, NoLease, parents, task_owner(t))>>])
                  /\ Finish(a, "ok")
    /\ UNCHANGED <<now, instance_id, breaker, progress, nextLease, nProgress, held, loc>>

\* -------------------------------------------------------------- renew_lease
\* tasks.get and the status test, in session s of a client that presents
\* worker id w and asks for extend_by_seconds = e (0: not given)
RenewGetAs(s, w, e) ==
    /\ pc[s] = "idle"
    /\ held[w] # NoHeld
    /\ loc' = [loc EXCEPT ![s] =
                 [IdleLoc EXCEPT !.op = "renew", !.task = held[w].task,
                                 !.lease = held[w].id, !.extend = e]]
    /\ IF ReadTask(s, held[w].task).status \notin {"leased", "running"}
       THEN Raise(s, "LeaseInvalidOrExpired")
       ELSE /\ pc' = [pc EXCEPT ![s] = "renew_select"]
            /\ UNCHANGED <<tasks, leases, receipts, out, buf>>
    /\ UNCHANGED <<now, instance_id, breaker, progress, nextLease, nProgress, held>>

RenewGet(w) == RenewGetAs(w, w, 0)

\* LeaseRepository.renew: the SELECT of the lease row (by task, lease id and
\* worker), the clock read and the two limits
RenewSelectAs(s, w) ==
    /\ pc[s] = "renew_select"
    /\ LET rows == {l \in ReadLeases(s) :
                       l.task = loc[s].task /\ l.id = loc[s].lease /\ l.worker = w}
       IN IF rows = {}
          THEN Raise(s, "LeaseInvalidOrExpired") /\ UNCHANGED loc
          ELSE LET lease_row == CHOOSE l \in rows : TRUE
               IN IF lease_row.renewal_count >= max_lease_renewals
                  THEN Raise(s, "LeaseRenewalLimitExceeded") /\ UNCHANGED loc
                  ELSE IF now - lease_row.acquired_at >= max_lease_lifetime
                  THEN Raise(s, "LeaseLifetimeExceeded") /\ UNCHANGED loc
                  ELSE /\ loc' = [loc EXCEPT ![s].rnow = now]
                       /\ pc' = [pc EXCEPT ![s] = "renew_update"]
                       /\ UNCHANGED <<tasks, leases, receipts, out, buf>>
    /\ UNCHANGED <<now, instance_id, breaker, progress, nextLease, nProgress, held>>

RenewSelect(w) == RenewSelectAs(w, w)

\* min(extend_by_seconds or default_lease_ttl_seconds, max_lease_ttl_seconds)
extend_by(e) == Min(IF e = 0 THEN LeaseTtl ELSE e, MaxLeaseTtl)

\* LeaseRepository.renew: UPDATE leases SET expires_at, renewal_count =
\* renewal_count + 1 WHERE lease_id; then the request commits
RenewUpdate(w) ==
    /\ pc[w] = "renew_update"
    /\ ~LeaseLockedByOther(w, loc[w].lease)
    /\ PublishBuf([buf[w] EXCEPT !.upd =
           {[l EXCEPT !.expires_at = loc[w].rnow + extend_by(loc[w].extend),
                      !.renewal_count = @ + 1] :
               l \in {x \in leases : x.id = loc[w].lease}}])
    /\ Finish(w, "ok")
    /\ UNCHANGED <<now, instance_id, breaker, progress, nextLease, nProgress, held, loc>>

\* --------------------------------------------------------------- start_task
\* leases.validate in session s of a client that presents worker id w
StartValidateAs(s, w) ==
    /\ pc[s] = "idle"
    /\ held[w] # NoHeld
    /\ IF validate(s, held[w].task, held[w].id, w)
       THEN /\ pc' = [pc EXCEPT ![s] = "start_get"]
            /\ UNCHANGED <<out, buf>>
       ELSE /\ Finish(s, "LeaseInvalidOrExpired")
    /\ loc' = [loc EXCEPT ![s] =
                 [IdleLoc EXCEPT !.op = "start", !.task = held[w].task,
                                 !.lease = held[w].id]]
    /\ UNCHANGED <<now, instance_id, breaker, progress, tasks, leases, receipts, nextLease,
                   nProgress, held>>

StartValidate(w) == StartValidateAs(w, w)

\* started_at = task.started_at or utc_now()
started_or_now(task) ==
    IF task.started_at # NoTime THEN task.started_at ELSE now

\* tasks.get; a running task is reported as started with the started_at that
\* was read; _transition_to_running refuses any status other than leased
StartGet(w) ==
    /\ pc[w] = "start_get"
    /\ LET task == ReadTask(w, loc[w].task)
       IN IF task.status = "running"
          THEN /\ Discard(w) /\ Finish(w, "ok")
               /\ loc' = [loc EXCEPT ![w].started_at = task.started_at]
          ELSE IF task.status # "leased"
          THEN Raise(w, "InvalidStateTransition") /\ UNCHANGED loc
          ELSE /\ pc' = [pc EXCEPT ![w] = "start_update"]
               /\ loc' = [loc EXCEPT ![w].started_at = started_or_now(task)]
               /\ UNCHANGED <<tasks, leases, receipts, out, buf>>
    /\ UNCHANGED <<now, instance_id, breaker, progress, nextLease, nProgress, held>>

\* update_status(..., started_at=started_at): set started_at if null
set_started_at(row, started_at) ==
    IF row.started_at = NoTime THEN started_at ELSE row.started_at

\* _transition_to_running: update_status(RUNNING, started_at) and task.started
\* in one savepoint
TransitionToRunning(s, t, lease_id, started_at) ==
    [buf[s] EXCEPT
        !.tlock = @ \cup {t},
        !.wtask = WithTask(@, t, [tasks[t] EXCEPT
                                     !.status = "running",
                                     !.started_at = set_started_at(tasks[t], started_at)]),
        !.rc = @ \o <<Receipt("task.started", t, lease_id, ObligationParents(t), task_owner(t))>>]

\* the savepoint of _transition_to_running; then the request commits
StartUpdate(w) ==
    /\ pc[w] = "start_update"
    /\ ~TaskLockedByOther(w, loc[w].task)
    /\ PublishBuf(TransitionToRunning(w, loc[w].task, loc[w].lease, loc[w].started_at))
    /\ Finish(w, "ok")
    /\ UNCHANGED <<now, instance_id, breaker, progress, nextLease, nProgress, held, loc>>

\* ---------------------------------------------------------- report_progress
ProgressValidate(w) ==
    /\ nProgress < MaxProgress
    /\ Validate(w, "progress", "progress_get")
    /\ loc' = [loc EXCEPT ![w] =
                 [IdleLoc EXCEPT !.op = "progress", !.task = held[w].task,
                                 !.lease = held[w].id]]
    /\ nProgress' = nProgress + 1

\* tasks.get and the obligation lookup
ProgressGet(w) ==
    /\ pc[w] = "progress_get"
    /\ loc' = [loc EXCEPT ![w].rstatus = ReadTask(w, loc[w].task).status,
                          ![w].started_at =
                              IF ReadTask(w, loc[w].task).status = "leased"
                              THEN started_or_now(ReadTask(w, loc[w].task))
                              ELSE NoTime]
    /\ pc' = [pc EXCEPT ![w] = "progress_update"]
    /\ UNCHANGED <<now, instance_id, breaker, progress, tasks, leases, receipts, nextLease,
                   nProgress, held, buf, out>>

\* a task that was read as leased goes through _transition_to_running; then
\* the progress row is upserted, task.progress is emitted and the request
\* commits
ProgressUpdate(w) ==
    /\ pc[w] = "progress_update"
    /\ LET t == loc[w].task
           leased == loc[w].rstatus = "leased"
           b == IF leased
                THEN TransitionToRunning(w, t, loc[w].lease, loc[w].started_at)
                ELSE buf[w]
       IN /\ leased => ~TaskLockedByOther(w, t)
          /\ PublishBuf([b EXCEPT !.rc = @ \o
                 <<Receipt("task.progress", t, loc[w].lease,
                           ObligationParents(t), task_owner(t))>>])
          /\ progress' = progress \cup {t}
          /\ Finish(w, "ok")
    /\ UNCHANGED <<now, instance_id, breaker, nextLease, nProgress, held, loc>>

\* first statement of start_task / report_progress of a client that
\* presents any task id, lease id and worker id
ValidateWith(s, op, next, t, lease_id, w) ==
    /\ pc[s] = "idle"
    /\ op = "progress" => nProgress < MaxProgress
    /\ IF validate(s, t, lease_id, w)
       THEN /\ pc' = [pc EXCEPT ![s] = next]
            /\ UNCHANGED <<out, buf>>
       ELSE /\ Finish(s, "LeaseInvalidOrExpired")
    /\ loc' = [loc EXCEPT ![s] =
                 [IdleLoc EXCEPT !.op = op, !.task = t, !.lease = lease_id,
                                 !.worker = w]]
    /\ nProgress' = IF op = "progress" THEN nProgress + 1 ELSE nProgress
    /\ UNCHANGED <<now, instance_id, breaker, progress, tasks, leases, receipts,
                   nextLease, held>>

\* ------------------------------------------------ expire_leases (the sweeper)
batch_size == 20

\* LeaseRepository.get_expired(limit, instance_id)
get_expired(id) ==
    {l \in leases : /\ l.expires_at < now
                    /\ (id # "" => tasks[l.task].inst = id)}

\* one pass of lease_sweep_loop opens a session and fetches the expired
\* leases (a pass that finds none changes nothing and is not a step)
SweepFetch(i) ==
    /\ pc[i] = "idle"
    /\ get_expired(instance_id[i]) # {}
    /\ loc' = [loc EXCEPT ![i] =
                 [IdleLoc EXCEPT !.op = "sweep", !.todo = get_expired(instance_id[i])]]
    /\ pc' = [pc EXCEPT ![i] = "sweep_loop"]
    /\ UNCHANGED <<now, instance_id, breaker, progress, tasks, leases, receipts, nextLease,
                   nProgress, held, buf, out>>

\* loop head: tasks.get of the next lease's task; terminal tasks are skipped
SweepGet(i) ==
    /\ pc[i] = "sweep_loop"
    /\ \E l \in loc[i].todo :
         IF is_terminal(ReadTask(i, l.task).status)
         THEN /\ loc' = [loc EXCEPT ![i].todo = @ \ {l}]
              /\ UNCHANGED pc
         ELSE /\ \E j \in 0..MaxJitter :
                   loc' = [loc EXCEPT ![i].cur = l, ![i].task = l.task,
                                      ![i].jitter = j, ![i].sp = buf[i]]
              /\ pc' = [pc EXCEPT ![i] = "sweep_requeue_get"]
    /\ UNCHANGED <<now, instance_id, breaker, progress, tasks, leases, receipts, nextLease,
                   nProgress, held, buf, out>>

\* requeue_on_expiry: the SELECT that yields attempt, and the clock read
SweepRequeueGet(i) ==
    /\ pc[i] = "sweep_requeue_get"
    /\ loc' = [loc EXCEPT ![i].ratt = ReadTask(i, loc[i].task).attempt,
                          ![i].rnow = now]
    /\ pc' = [pc EXCEPT ![i] = "sweep_requeue_update"]
    /\ UNCHANGED <<now, instance_id, breaker, progress, tasks, leases, receipts, nextLease,
                   nProgress, held, buf, out>>

\* requeue_on_expiry: the UPDATE
SweepRequeueUpdate(i) ==
    /\ pc[i] = "sweep_requeue_update"
    /\ LET t == loc[i].task
       IN /\ ~TaskLockedByOther(i, t)
          /\ buf' = [buf EXCEPT ![i] =
                [@ EXCEPT !.tlock = @ \cup {t},
                          !.wtask = WithTask(@, t,
                              [ReadTask(i, t) EXCEPT !.status = "queued",
                                                     !.attempt = loc[i].ratt,
                                                     !.nea = loc[i].rnow + loc[i].jitter])]]
    /\ pc' = [pc EXCEPT ![i] = "sweep_release"]
    /\ UNCHANGED <<now, instance_id, breaker, progress, tasks, leases, receipts, nextLease,
                   nProgress, held, loc, out>>

\* leases.release, lease.expired, end of the savepoint; the session commits
\* when count reaches a multiple of batch_size
SweepRelease(i) ==
    /\ pc[i] = "sweep_release"
    /\ LET t == loc[i].task
           b == [Released(i, t) EXCEPT !.rc = @ \o
                    <<Receipt("lease.expired", t, loc[i].cur.id,
                              ObligationParents(t), task_owner(t))>>]
           n == loc[i].count + 1
       IN /\ ~ReleaseBlocked(i, t)
          /\ loc' = [loc EXCEPT ![i].count = n, ![i].todo = @ \ {loc[i].cur},
                                ![i].cur = NoLeaseRow, ![i].sp = EmptyBuf]
          /\ IF n % batch_size = 0
             THEN PublishBuf(b) /\ buf' = [buf EXCEPT ![i] = EmptyBuf]
             ELSE buf' = [buf EXCEPT ![i] = b] /\ UNCHANGED <<tasks, leases, receipts>>
    /\ pc' = [pc EXCEPT ![i] = "sweep_loop"]
    /\ UNCHANGED <<now, instance_id, breaker, progress, nextLease, nProgress, held, out>>

\* the loop is over: get_session commits and the pass ends
SweepCommit(i) ==
    /\ pc[i] = "sweep_loop"
    /\ loc[i].todo = {}
    /\ Publish(i)
    /\ buf' = [buf EXCEPT ![i] = EmptyBuf]
    /\ pc' = [pc EXCEPT ![i] = "idle"]
    /\ loc' = [loc EXCEPT ![i] = IdleLoc]
    /\ UNCHANGED <<now, instance_id, breaker, progress, nextLease, nProgress, held, out>>

\* ------------------------------------------------------ deadlock detection
TaskWaitPcs ==
    {"complete_update", "fail_requeue_update", "fail_update", "cancel_update",
     "sweep_requeue_update", "start_update", "progress_update"}

LeaseWaitPcs ==
    {"complete_release", "fail_release", "cancel_release", "sweep_release",
     "renew_update"}

\* the sessions whose row locks session s is waiting for
BlockedOn(s) ==
    IF /\ pc[s] \in TaskWaitPcs
       /\ ~(pc[s] = "cancel_update" /\ is_terminal(loc[s].rstatus))
       /\ ~(pc[s] = "progress_update" /\ loc[s].rstatus # "leased")
    THEN {o \in Sessions \ {s} : loc[s].task \in buf[o].tlock}
    ELSE IF pc[s] \in LeaseWaitPcs
    THEN {o \in Sessions \ {s} :
            \E l \in leases : l.task = loc[s].task /\ l.id \in buf[o].llock}
    ELSE {}

RECURSIVE WaitsFor(_, _)
WaitsFor(S, k) ==
    IF k = 0 THEN S
    ELSE WaitsFor(S \cup UNION {BlockedOn(x) : x \in S}, k - 1)

Deadlocked(s) == s \in WaitsFor(BlockedOn(s), Cardinality(Sessions))

DeadlockPropagates(s) ==
    /\ Deadlocked(s)
    /\ Raise(s, "DeadlockDetected")
    /\ UNCHANGED <<now, instance_id, breaker, progress, nextLease, nProgress, held, loc>>

\* PostgreSQL aborts one statement of a lock cycle.  A request handler
\* propagates the error (its session rolls back); expire_leases catches it,
\* rolls back to the savepoint and goes on with the next lease
DeadlockAbort(s) ==
    /\ Deadlocked(s)
    /\ IF s \in Instances
       THEN /\ buf' = [buf EXCEPT ![s] = loc[s].sp]
            /\ loc' = [loc EXCEPT ![s].todo = @ \ {loc[s].cur},
                                  ![s].cur = NoLeaseRow, ![s].sp = EmptyBuf]
            /\ pc' = [pc EXCEPT ![s] = "sweep_loop"]
            /\ UNCHANGED <<tasks, leases, receipts, out>>
       ELSE /\ Raise(s, "DeadlockDetected")
            /\ UNCHANGED loc
    /\ UNCHANGED <<now, instance_id, breaker, progress, nextLease, nProgress, held>>

\* ----------------------------------------------------------- CircuitBreaker
\* _should_attempt_reset
should_always_reset == TRUE

should_attempt_reset ==
    /\ breaker.opened_at # NoTime
    /\ now - breaker.opened_at >= breaker.config.timeout_seconds

transition_to_open(b) ==
    [b EXCEPT !.state = "open", !.opened_at = now, !.half_open_calls = 0]

transition_to_half_open(b) ==
    [b EXCEPT !.state = "half_open", !.success_count = 0, !.failure_count = 0,
              !.half_open_calls = 0]

transition_to_closed(b) ==
    [b EXCEPT !.state = "closed", !.failure_count = 0, !.success_count = 0,
              !.opened_at = NoTime, !.half_open_calls = 0]

\* CircuitBreaker.call up to the release of the lock: an open breaker whose
\* timeout has passed becomes half-open; an open breaker and a half-open one
\* that has admitted half_open_max_calls reject the call (no fallback);
\* otherwise the call is admitted and func starts
call(s) ==
    /\ pc[s] = "idle"
    /\ loc' = [loc EXCEPT ![s] = [IdleLoc EXCEPT !.op = "call"]]
    /\ LET b == IF breaker.state = "open" /\ should_attempt_reset
                THEN transition_to_half_open(breaker)
                ELSE breaker
       IN IF b.state = "open"
          THEN /\ breaker' = b
               /\ Finish(s, "CircuitBreakerOpen")
          ELSE IF b.state = "half_open"
                  /\ b.half_open_calls >= b.config.half_open_max_calls
          THEN /\ breaker' = b
               /\ Finish(s, "CircuitBreakerOpen")
          ELSE /\ breaker' = IF b.state = "half_open"
                             THEN [b EXCEPT !.half_open_calls = @ + 1]
                             ELSE b
               /\ pc' = [pc EXCEPT ![s] = "call_func"]
               /\ UNCHANGED <<out, buf>>
    /\ UNCHANGED <<now, instance_id, progress, tasks, leases, receipts,
                   nextLease, nProgress, held>>

\* func returned: _on_success, then call returns its result
on_success(s) ==
    /\ pc[s] = "call_func"
    /\ breaker.success_count < MaxCount
    /\ LET b == [breaker EXCEPT !.success_count = @ + 1, !.failure_count = 0]
       IN breaker' = IF /\ b.state = "half_open"
                        /\ b.success_count >= b.config.success_threshold
                     THEN transition_to_closed(b)
                     ELSE b
    /\ Finish(s, "ok")
    /\ UNCHANGED <<now, instance_id, progress, tasks, leases, receipts,
                   nextLease, nProgress, held, loc>>

\* func raised: _on_failure, then call raises the error again
on_failure(s) ==
    /\ pc[s] = "call_func"
    /\ breaker.failure_count < MaxCount
    /\ LET b == [breaker EXCEPT !.failure_count = @ + 1, !.success_count = 0]
       IN breaker' = IF b.state = "half_open"
                     THEN transition_to_open(b)
                     ELSE IF /\ b.state = "closed"
                             /\ b.failure_count >= b.config.failure_threshold
                     THEN transition_to_open(b)
                     ELSE b
    /\ Finish(s, "error")
    /\ UNCHANGED <<now, instance_id, progress, tasks, leases, receipts,
                   nextLease, nProgress, held, loc>>

\* CircuitBreaker.reset
reset ==
    /\ breaker' = transition_to_closed(breaker)
    /\ UNCHANGED <<now, instance_id, progress, tasks, leases, receipts,
                   nextLease, nProgress, held, pc, loc, buf, out>>

\* the configurations of the model: positive thresholds
BreakerConfigs ==
    [failure_threshold : 1..MaxThreshold, timeout_seconds : {BreakerTimeout},
     half_open_max_calls : 1..MaxThreshold, success_threshold : 1..MaxThreshold]

InitBreaker ==
    /\ InitCommon
    /\ instance_id = [i \in Instances |-> "i1"]
    /\ \E config \in BreakerConfigs : breaker = CircuitBreaker(config)

\* the coroutines that call through the breaker
Callers == Agents

NextBreaker ==
    \/ Tick
    \/ \E s \in Callers : call(s)
    \/ \E s \in Callers : on_success(s)
    \/ \E s \in Callers : on_failure(s)
    \/ \E s \in Callers : Return(s)
    \/ reset

SpecBreaker == InitBreaker /\ [][NextBreaker]_vars

\* every admitted call returns, callers take their results and keep calling
SpecBreakerFair ==
    /\ SpecBreaker
    /\ \A s \in Callers :
          /\ WF_vars(on_success(s) \/ on_failure(s))
          /\ WF_vars(Return(s))
          /\ WF_vars(call(s))

\* ------------------------------------------------------- specifications
ClaimStep(w, n) ==
    \/ ClaimSelect(w, n)
    \/ ClaimCommit(w)

CompleteStep(w, B) ==
    \/ \E art \in B, big \in B : CompleteValidate(w, art, big)
    \/ CompleteGet(w)
    \/ CompleteUpdate(w)
    \/ CompleteRelease(w)

FailStep(w, B) ==
    \/ \E r \in BOOLEAN, big \in B : FailValidate(w, r, big)
    \/ FailGet(w)
    \/ FailRelease(w)
    \/ FailRequeueGet(w)
    \/ FailRequeueUpdate(w)
    \/ FailUpdate(w)

WorkerStep(w, n, B) ==
    \/ ClaimStep(w, n)
    \/ CompleteStep(w, B)
    \/ FailStep(w, B)
    \/ Return(w)

WorkerAuxStep(w) ==
    \/ RenewGet(w)
    \/ RenewSelect(w)
    \/ RenewUpdate(w)
    \/ StartValidate(w)
    \/ StartGet(w)
    \/ StartUpdate(w)
    \/ ProgressValidate(w)
    \/ ProgressGet(w)
    \/ ProgressUpdate(w)

CancelStep(a, T, B) ==
    \/ \E t \in T, big \in B : CancelGet(a, t, big)
    \/ CancelRelease(a)
    \/ CancelInnerGet(a)
    \/ CancelUpdate(a)
    \/ Return(a)

SweepStep(i) ==
    \/ SweepFetch(i)
    \/ SweepGet(i)
    \/ SweepRequeueGet(i)
    \/ SweepRequeueUpdate(i)
    \/ SweepRelease(i)
    \/ SweepCommit(i)

\* ------------------------------------------------- obligations (ledger)
\* ReceiptRepository.has_terminator: ids are positions in the ledger
has_terminator(o) == \E i \in 1..Len(receipts) : o \in receipts[i].parents

\* every obligation addressed to the principal, terminated or not
list_all_obligations(to) ==
    {i \in 1..Len(receipts) :
        receipts[i].to = to /\ receipts[i].type \in DOMAIN TERMINATION_RULES}

\* ReceiptRepository.list_open_obligations (one page; the model's ledger is
\* shorter than the page)
list_open_obligations(to) ==
    LET candidates == {i \in 1..Len(receipts) :
                          receipts[i].to = to /\ receipts[i].type \in DOMAIN TERMINATION_RULES}
        terminated == {c \in candidates : \E i \in 1..Len(receipts) : c \in receipts[i].parents}
    IN candidates \ terminated

\* one task, one worker, one agent, the sweeper of the owning instance
MainTasks == {"t1"}

Next ==
    \/ Tick
    \/ \E t \in MainTasks : CreateTask("agent", t, "A", 0)
    \/ WorkerStep("w1", 1, BOOLEAN)
    \/ CancelStep("agent", MainTasks, BOOLEAN)
    \/ SweepStep("A")
    \/ \E s \in Sessions : DeadlockAbort(s)

Spec == Init /\ [][Next]_vars

\* a worker that claims, starts, reports progress, renews and completes,
\* with cancel and the sweeper
NextRun ==
    \/ Tick
    \/ \E t \in MainTasks : CreateTask("agent", t, "A", 0)
    \/ ClaimStep("w1", 1)
    \/ CompleteStep("w1", {FALSE})
    \/ WorkerAuxStep("w1")
    \/ Return("w1")
    \/ CancelStep("agent", MainTasks, {FALSE})
    \/ SweepStep("A")
    \/ \E s \in Sessions : DeadlockAbort(s)

SpecRun == Init /\ [][NextRun]_vars

\* every handler that emits receipts for a task: claim, start, progress,
\* complete (with or without artifacts), fail, cancel and the sweeper
NextEmit ==
    \/ Tick
    \/ \E t \in MainTasks : CreateTask("agent", t, "A", 0)
    \/ ClaimStep("w1", 1)
    \/ \E art \in BOOLEAN : CompleteValidate("w1", art, FALSE)
    \/ CompleteGet("w1")
    \/ CompleteUpdate("w1")
    \/ CompleteRelease("w1")
    \/ FailStep("w1", {FALSE})
    \/ StartValidate("w1")
    \/ StartGet("w1")
    \/ StartUpdate("w1")
    \/ ProgressValidate("w1")
    \/ ProgressGet("w1")
    \/ ProgressUpdate("w1")
    \/ Return("w1")
    \/ CancelStep("agent", MainTasks, {FALSE})
    \/ SweepStep("A")
    \/ \E s \in Sessions : DeadlockAbort(s)

SpecEmit == Init /\ [][NextEmit]_vars

\* tasks created by an agent or by the system, a worker that claims and
\* completes, and cancel_task called by any principal, internal or not
NextCancel ==
    \/ \E created_by \in {Owner, SYSTEM_PRINCIPAL_ID} :
          CreateTaskBy("agent", "t1", "A", 0, created_by)
    \/ ClaimStep("w1", 1)
    \/ CompleteStep("w1", {FALSE})
    \/ Return("w1")
    \/ \E principal \in Principals, actor_is_internal \in BOOLEAN :
          CancelGetAs("agent2", "t1", FALSE, principal, actor_is_internal)
    \/ CancelRelease("agent2")
    \/ CancelInnerGet("agent2")
    \/ CancelUpdate("agent2")
    \/ Return("agent2")
    \/ \E s \in Sessions : DeadlockAbort(s)

SpecCancel == Init /\ [][NextCancel]_vars

\* two tasks of any priority, type and required capabilities; two workers
\* that claim one or two tasks with any capabilities and accept_types
Types == {"job", "other"}

CapabilitySets == {{}, {"gpu"}}

Priorities == {0, 1}

NextPrio ==
    \/ \E t \in TaskIds, prio \in Priorities, type \in Types,
          capabilities \in CapabilitySets :
          CreateTaskWith("agent", t, "A", prio, type, capabilities)
    \/ \E w \in Workers, n \in {1, 2}, capabilities \in CapabilitySets,
          accept_types \in {{}, {"job"}} :
          ClaimSelectWith(w, n, capabilities, accept_types)
    \/ \E w \in Workers : ClaimCommit(w)
    \/ \E w \in Workers : Return(w)

SpecPrio == Init /\ [][NextPrio]_vars

\* a worker whose client retries start_task on a second connection while the
\* first call is still in flight
StartStep(s, w) ==
    \/ StartValidateAs(s, w)
    \/ StartGet(s)
    \/ StartUpdate(s)
    \/ Return(s)

NextStart ==
    \/ Tick
    \/ \E t \in MainTasks : CreateTask("agent", t, "A", 0)
    \/ ClaimStep("w1", 1)
    \/ StartStep("w1", "w1")
    \/ StartStep("w2", "w1")

SpecStart == Init /\ [][NextStart]_vars

\* workers that call start_task and report_progress with the ids of any
\* task, lease and worker
NextValidate ==
    \/ Tick
    \/ \E t \in MainTasks : CreateTask("agent", t, "A", 0)
    \/ ClaimStep("w1", 1)
    \/ \E s, w \in Workers, t \in TaskIds, lease_id \in 1..MaxLeases :
          \/ ValidateWith(s, "start", "start_get", t, lease_id, w)
          \/ ValidateWith(s, "progress", "progress_get", t, lease_id, w)
    \/ \E s \in Workers :
          \/ StartGet(s)
          \/ StartUpdate(s)
          \/ ProgressGet(s)
          \/ ProgressUpdate(s)
          \/ Return(s)

SpecValidate == Init /\ [][NextValidate]_vars

\* one worker that holds the leases of both tasks and fails one of them
\* while the sweeper of the owning instance expires both
NextSweep ==
    \/ Tick
    \/ \E t \in TaskIds : CreateTask("agent", t, "A", 0)
    \/ ClaimStep("w1", 2)
    \/ FailStep("w1", {FALSE})
    \/ Return("w1")
    \/ SweepStep("A")
    \/ \E s \in Sessions : DeadlockAbort(s)

SpecSweep == Init /\ [][NextSweep]_vars

\* a worker that renews its lease from two connections at once (the second
\* connection is session w2, presenting worker id w1), with any extension,
\* and the sweeper
RenewStep(s, w) ==
    \/ \E e \in {0, MaxLeaseTtl} : RenewGetAs(s, w, e)
    \/ RenewSelectAs(s, w)
    \/ RenewUpdate(s)
    \/ Return(s)

NextRenew ==
    \/ LongTick
    \/ \E t \in MainTasks : CreateTask("agent", t, "A", 0)
    \/ ClaimStep("w1", 1)
    \/ RenewStep("w1", "w1")
    \/ RenewStep("w2", "w1")
    \/ SweepStep("A")

SpecRenew == Init /\ [][NextRenew]_vars

\* two agents that create tasks, with and without an idempotency key
Keys == {"", "k1"}

CreateStep(a) ==
    \/ \E t \in TaskIds, key \in Keys, big \in BOOLEAN : CreateInsert(a, t, "A", key, big)
    \/ CreateEmit(a)
    \/ Return(a)

NextCreate == \E a \in Agents : CreateStep(a)

SpecCreate == Init /\ [][NextCreate]_vars

\* ----------------------------------------- ReceiptRepository.create (ledger)
\* receipt_hash=None
NoHash == <<>>

\* tenant ids
Tenants == {"T1", "T2"}

\* a receipt body: without artifacts or delivery_proof, or with artifacts
Bodies == {"plain", "art"}

\* the parents argument: a list of receipt ids (positions in the ledger)
ParentLists == {<<>>, <<1>>, <<2>>, <<1, 2>>, <<2, 1>>}

\* compute_receipt_hash: SHA-256 of the canonical JSON of the fields, the
\* parents sorted; the digest is modelled by the tuple that is digested
\* (from_principal is the same in every call of the model)
compute_receipt_hash(type, task, to, lease, body, parents) ==
    <<type, task, to, lease, SortSeq(parents, <), body>>

\* the row ReceiptRepository.create inserts
ReceiptRow(tenant, type, from, to, task, lease, parents, body, receipt_hash) ==
    [tenant |-> tenant, type |-> type, task |-> task, lease |-> lease,
     parents |-> parents,
     from |-> from, to |-> to, body |-> body, hash |-> receipt_hash, created_at |-> now]

ParentIds(parents) == {parents[k] : k \in 1..Len(parents)}

\* ReceiptRepository._get_by_hash: the rows with that hash
get_by_hash(tenant, receipt_hash) ==
    {i \in 1..Len(receipts) :
        receipts[i].tenant = tenant /\ receipts[i].hash = receipt_hash}

\* the parents that are not receipts of the tenant
missing_parents(tenant, parents) ==
    {p \in ParentIds(parents) :
        ~(p \in 1..Len(receipts) /\ receipts[p].tenant = tenant)}

\* ReceiptRepository.create followed by the caller's commit. receipt_hash is
\* what the caller passes: _emit_receipt passes None, and so does a call that
\* leaves the argument out.
ReceiptCreate(s, tenant, type, from, to, task, lease, parents, body, receipt_hash) ==
    /\ pc[s] = "idle"
    /\ LET emit == [IdleLoc EXCEPT !.op = "emit", !.type = type, !.task = task,
                                   !.lease = lease, !.parents = parents,
                                   !.body = body, !.tenant = tenant]
       IN IF receipt_hash # NoHash /\ get_by_hash(tenant, receipt_hash) # {}
          THEN /\ loc' = [loc EXCEPT ![s] =
                     [emit EXCEPT !.receipt_id =
                          CHOOSE i \in get_by_hash(tenant, receipt_hash) : TRUE]]
               /\ UNCHANGED <<tasks, leases, receipts>>
               /\ Finish(s, "ok")
          ELSE IF is_terminal_type(type)
                    /\ (parents = <<>> \/ missing_parents(tenant, parents) # {})
          THEN /\ loc' = [loc EXCEPT ![s] = emit]
               /\ Raise(s, "ValueError")
          ELSE /\ loc' = [loc EXCEPT ![s] =
                     [emit EXCEPT !.receipt_id = Len(receipts) + 1]]
               /\ receipts' = Append(receipts,
                     ReceiptRow(tenant, type, from, to, task, lease,
                                StoredParents(type, ParentIds(parents), body = "art"),
                                body, receipt_hash))
               /\ UNCHANGED <<tasks, leases>>
               /\ Finish(s, "ok")
    /\ UNCHANGED <<now, instance_id, breaker, progress, nextLease, nProgress, held>>

\* AsyncGateEngine.ack_receipt: a receipt.acknowledged receipt from the
\* normalised principal to the service principal, with the acknowledged
\* receipt as its parent
ack_receipt(s, tenant, receipt_id, principal) ==
    ReceiptCreate(s, tenant, "receipt.acknowledged", normalize_external(principal),
                  SERVICE_PRINCIPAL_ID, "none", NoLease, <<receipt_id>>, "ack", NoHash)

\* the calls of the model: an obligation, task.completed receipts that name
\* parents, and acknowledgements
LedgerStep(s) ==
    \/ \E tenant \in Tenants, body \in Bodies, h \in BOOLEAN :
          /\ Len(receipts) < MaxRows
          /\ ReceiptCreate(s, tenant, "task.assigned", Owner, Owner, "t1", NoLease, <<>>, body,
              IF h THEN compute_receipt_hash("task.assigned", "t1", Owner,
                                             NoLease, body, <<>>)
                   ELSE NoHash)
    \/ \E tenant \in Tenants, body \in Bodies, parents \in ParentLists, h \in BOOLEAN :
          /\ Len(receipts) < MaxRows
          /\ ReceiptCreate(s, tenant, "task.completed", Owner, Owner, "t1", NoLease, parents, body,
              IF h THEN compute_receipt_hash("task.completed", "t1", Owner,
                                             NoLease, body, parents)
                   ELSE NoHash)
    \/ \E tenant \in Tenants, receipt_id \in 1..2, principal \in {"a1", "ext:a1"} :
          /\ Len(receipts) < MaxRows
          /\ ack_receipt(s, tenant, receipt_id, principal)
    \/ Return(s)

NextLedger == LedgerStep("agent")

SpecLedger == Init /\ [][NextLedger]_vars

\* ------------------------------------------- list_open_obligations (paging)
\* candidate_limit = min(limit * 3, 1000)
candidate_limit(limit) == Min(limit * 3, 1000)

\* ORDER BY created_at ASC; rows with equal created_at come in ledger order
CreatedBefore(i, j) ==
    \/ receipts[i].created_at < receipts[j].created_at
    \/ receipts[i].created_at = receipts[j].created_at /\ i < j

\* the first n members of S in that order
FirstRows(S, n) == {i \in S : Cardinality({j \in S : CreatedBefore(j, i)}) < n}

\* the candidate query: obligations addressed to the principal, after the
\* cursor's created_at when a cursor is given, at most candidate_limit rows
candidate_rows(to, since_receipt_id, limit) ==
    FirstRows({i \in 1..Len(receipts) :
                  /\ receipts[i].to = to
                  /\ receipts[i].type \in DOMAIN TERMINATION_RULES
                  /\ since_receipt_id # 0 =>
                        receipts[i].created_at > receipts[since_receipt_id].created_at},
              candidate_limit(limit))

\* the batch termination check
terminated_ids(candidates) ==
    {c \in candidates : \E i \in 1..Len(receipts) : c \in receipts[i].parents}

\* the page returned: the first limit candidates that are not terminated
open_page(to, since_receipt_id, limit) ==
    LET candidates == candidate_rows(to, since_receipt_id, limit)
    IN FirstRows(candidates \ terminated_ids(candidates), limit)

\* the rows of a page as the list returned
PageList(P) == SortSeq(CHOOSE q \in [1..Cardinality(P) -> P] :
                           \A a, b \in 1..Cardinality(P) : a # b => q[a] # q[b],
                       CreatedBefore)

\* next_cursor: the last obligation of a full page, else None
next_cursor(P, limit) ==
    IF Cardinality(P) >= limit
    THEN CHOOSE i \in P : \A j \in P : j = i \/ CreatedBefore(j, i)
    ELSE 0

\* one call of list_open_obligations by a client that follows the cursor
ListPage(s) ==
    /\ pc[s] \in {"idle", "paging"}
    /\ LET since == IF pc[s] = "idle" THEN 0 ELSE loc[s].cursor
           listed == IF pc[s] = "idle" THEN <<>> ELSE loc[s].listed
           P == open_page(Owner, since, PageLimit)
           cursor == next_cursor(P, PageLimit)
       IN /\ loc' = [loc EXCEPT ![s] =
                [IdleLoc EXCEPT !.op = "page", !.cursor = cursor,
                                !.listed = listed \o PageList(P)]]
          /\ pc' = [pc EXCEPT ![s] = IF cursor = 0 THEN "ret" ELSE "paging"]
          /\ out' = [out EXCEPT ![s] = IF cursor = 0 THEN "ok" ELSE out[s]]
    /\ UNCHANGED <<now, instance_id, breaker, progress, tasks, leases, receipts, nextLease,
                   nProgress, held, buf>>

\* receipts are emitted while no client is between two pages
NextPage ==
    \/ Tick
    \/ /\ Len(receipts) < MaxPageRows
       /\ pc["agent"] = "idle"
       /\ \/ ReceiptCreate("agent2", "T1", "task.assigned", Owner, Owner, "t1", NoLease, <<>>,
                           "plain", NoHash)
          \/ \E o \in open_page(Owner, 0, MaxPageRows) :
                ReceiptCreate("agent2", "T1", "task.canceled", Owner, Owner, "t1", NoLease, <<o>>,
                              "plain", NoHash)
    \/ Return("agent2")
    \/ ListPage("agent")
    \/ Return("agent")

SpecPage == Init /\ [][NextPage]_vars

\* two workers competing for one task, with cancel and the sweeper
NextClaim ==
    \/ Tick
    \/ \E t \in MainTasks : CreateTask("agent", t, "A", 0)
    \/ \E w \in Workers : WorkerStep(w, 1, {FALSE})
    \/ CancelStep("agent", MainTasks, {FALSE})
    \/ SweepStep("A")
    \/ \E s \in Sessions : DeadlockAbort(s)

SpecClaim == Init /\ [][NextClaim]_vars

\* two processes, each the owner of one task; process A's ASYNCGATE_INSTANCE_ID
\* is whatever the deployment set (main.lifespan keeps any value other than
\* the default), and one worker claims both tasks and then goes silent
InitIso ==
    /\ InitCommon
    /\ breaker = CircuitBreaker(CircuitBreakerConfig)
    /\ \E v \in InstanceIdValues :
           instance_id = [i \in Instances |-> IF i = "A" THEN v ELSE "i2"]

NextIso ==
    \/ Tick
    \/ CreateTask("agent", "t1", "A", 0)
    \/ CreateTask("agent", "t2", "B", 0)
    \/ \E n \in 1..2 : ClaimSelect("w1", n)
    \/ ClaimCommit("w1")
    \/ Return("w1")
    \/ \E i \in Instances : SweepStep(i)

SpecIso == InitIso /\ [][NextIso]_vars

\* fair scheduling: the sweep loop of instance A keeps running, requests in
\* flight run to their end, the clock advances, and a statement that waits
\* for a row lock is served when the lock is released (PostgreSQL queues
\* lock waiters), hence strong fairness for the statements that can wait
NextFair ==
    \/ Tick
    \/ \E t \in MainTasks : CreateTask("agent", t, "A", 0)
    \/ ClaimSelect("w1", 1)
    \/ ClaimCommit("w1")
    \/ Return("w1")
    \/ CancelStep("agent", MainTasks, {FALSE})
    \/ SweepStep("A")
    \/ \E s \in Sessions : DeadlockAbort(s)

InFlight ==
    \/ ClaimCommit("w1")
    \/ Return("w1")
    \/ CancelRelease("agent")
    \/ CancelInnerGet("agent")
    \/ CancelUpdate("agent")
    \/ Return("agent")
    \/ \E s \in Sessions : DeadlockAbort(s)

SpecFair ==
    /\ Init
    /\ [][NextFair]_vars
    /\ WF_vars(SweepStep("A"))
    /\ SF_vars(SweepRequeueUpdate("A"))
    /\ SF_vars(SweepRelease("A"))
    /\ WF_vars(InFlight)
    /\ SF_vars(CancelRelease("agent"))
    /\ SF_vars(CancelUpdate("agent"))
    /\ WF_vars(Tick)

\* ================================================================ claims
NewReceipts == {i \in 1..Len(receipts') : i > Len(receipts)}

LeasesOf(t) == {l \in leases : l.task = t}

\* ---------------------------------------------------------------------- C1
LeaseUnique == \A l1 \in leases : \A l2 \in leases : l1.task = l2.task => l1 = l2

\* worker w issues its claim while worker o's claim transaction is open on
\* the only eligible task
ConcurrentClaim(w, o) ==
    /\ pc[o] = "claim_commit"
    /\ pc[w] = "idle"
    /\ pc'[w] # "idle"
    /\ loc'[w].op = "claim"
    /\ {t \in TaskIds : Eligible(t)} = {h.task : h \in loc[o].got}

\* C1: at most one lease row exists per task in every reachable state; of
\* two claims that run concurrently against a single eligible queued task,
\* the one that holds the row is granted a lease and the other returns an
\* empty list.
C1_OneLeasePerTask ==
    /\ []LeaseUnique
    /\ [][\A w \in Workers : \A o \in Workers \ {w} :
            /\ ConcurrentClaim(w, o) => (pc'[w] = "ret" /\ out'[w] = "empty")
            /\ (pc[o] = "claim_commit" /\ pc'[o] = "ret") =>
                   /\ out'[o] = "granted"
                   /\ \A h \in loc[o].got :
                        \E l \in leases' : l.id = h.id /\ l.task = h.task /\ l.worker = o]_vars

C1_Witness ==
    /\ pc["w1"] = "ret" /\ out["w1"] = "granted"
    /\ pc["w2"] = "ret" /\ out["w2"] = "empty" /\ loc["w2"].seen = {"t1"}
    /\ Cardinality(leases) = 1

\* ---------------------------------------------------------------------- C2
\* C2: once a task's status is succeeded, failed or canceled, no step of any
\* handler or of the sweeper changes it.
C2_TerminalIsFinal ==
    [][\A t \in TaskIds :
          is_terminal(tasks[t].status) => tasks'[t].status = tasks[t].status]_vars

\* ---------------------------------------------------------------------- C3
SavepointPcs ==
    {"complete_update", "complete_release", "fail_release", "fail_requeue_get",
     "fail_requeue_update", "fail_update", "cancel_release", "cancel_inner_get",
     "cancel_update"}

SavepointErrors == {"ValueError", "DeadlockDetected"}

RaisedInSavepoint(s) ==
    pc[s] \in SavepointPcs /\ pc'[s] = "ret" /\ out'[s] \in SavepointErrors

TerminatorOf(status) ==
    CASE status = "succeeded" -> "task.completed"
      [] status = "failed" -> "task.failed"
      [] status = "canceled" -> "task.canceled"
      [] OTHER -> "none"

\* C3: when a step inside the savepoint of complete, fail or cancel_task
\* raises, the task rows, the lease rows and the ledger are left as they
\* were and nothing the handler wrote survives; a task becomes terminal, or
\* has its attempt raised, only in the step that also appends that
\* operation's receipt, and a task.completed, task.failed or
\* task.retry_scheduled receipt is appended only in the step that writes
\* the matching state.
C3_SavepointAtomic ==
    [][/\ \A s \in Clients :
            RaisedInSavepoint(s) =>
                /\ tasks' = tasks /\ leases' = leases /\ receipts' = receipts
                /\ buf'[s] = EmptyBuf
       /\ \A t \in TaskIds :
            /\ (is_terminal(tasks'[t].status) /\ tasks'[t].status # tasks[t].status) =>
                   \E i \in NewReceipts :
                       receipts'[i].task = t /\ receipts'[i].type = TerminatorOf(tasks'[t].status)
            /\ (tasks[t].status # "absent" /\ tasks'[t].attempt > tasks[t].attempt) =>
                   \E i \in NewReceipts :
                       receipts'[i].task = t /\ receipts'[i].type = "task.retry_scheduled"
       /\ \A i \in NewReceipts :
            /\ receipts'[i].type = "task.completed" => tasks'[receipts'[i].task].status = "succeeded"
            /\ receipts'[i].type = "task.failed" => tasks'[receipts'[i].task].status = "failed"
            /\ receipts'[i].type = "task.retry_scheduled" =>
                   /\ tasks'[receipts'[i].task].status = "queued"
                   /\ \A l \in leases' : l.task # receipts'[i].task]_vars

C3_Witness ==
    /\ pc["w1"] = "ret" /\ out["w1"] = "ValueError" /\ loc["w1"].op = "complete"
    /\ tasks["t1"].status = "leased"
    /\ \E l \in leases : l.id = loc["w1"].lease

\* ---------------------------------------------------------------------- C4
CitesObligation(i, t) ==
    get_task_obligation(t) # 0 /\ get_task_obligation(t) \in receipts[i].parents

LenientBranchFired(t) ==
    \E i \in 1..Len(receipts) :
        receipts[i].type = "task.completed" /\ receipts[i].task = t /\ receipts[i].parents = {}

\* C4: every task whose status is terminal has a terminator receipt whose
\* parents contain the id of its task.assigned receipt, unless complete
\* stored a task.completed without locatability, in which case the ledger
\* holds a system.anomaly receipt.
C4_TerminalHasTerminator ==
    \A t \in TaskIds :
        is_terminal(tasks[t].status) =>
            \/ \E i \in 1..Len(receipts) :
                   /\ is_terminal_type(receipts[i].type)
                   /\ receipts[i].task = t
                   /\ CitesObligation(i, t)
            \/ /\ LenientBranchFired(t)
               /\ \E i \in 1..Len(receipts) : receipts[i].type = "system.anomaly"

\* ---------------------------------------------------------------------- C5
Obligations == {i \in 1..Len(receipts) : receipts[i].type \in DOMAIN TERMINATION_RULES}

TerminatedByRule(o) ==
    \E i \in 1..Len(receipts) :
        receipts[i].type \in TERMINATION_RULES[receipts[o].type] /\ o \in receipts[i].parents

\* C5: an obligation that only receipts of non-terminator types cite is not
\* closed: has_terminator is false for it and list_open_obligations returns it.
C5_NonTerminatorsKeepOpen ==
    \A o \in Obligations :
        ~TerminatedByRule(o) =>
            /\ ~has_terminator(o)
            /\ o \in list_open_obligations(receipts[o].to)

\* ---------------------------------------------------------------------- C6
\* C6: no step lowers a task's attempt counter; a step raises it by exactly
\* one and only together with fail's task.retry_scheduled; a commit of the
\* sweeper leaves it as it was.
C6_AttemptMonotone ==
    [][\A t \in TaskIds :
          tasks[t].status # "absent" =>
              /\ tasks'[t].attempt >= tasks[t].attempt
              /\ tasks'[t].attempt # tasks[t].attempt =>
                     /\ tasks'[t].attempt = tasks[t].attempt + 1
                     /\ \E i \in NewReceipts :
                            receipts'[i].task = t /\ receipts'[i].type = "task.retry_scheduled"]_vars

\* ---------------------------------------------------------------------- C7
\* the sweep pass of process i commits the leases it processed
SweepCommits(i) == pc[i] = "sweep_loop" /\ pc'[i] = "idle" /\ buf[i].rc # <<>>

\* C7: when the sweeper commits the expiry of a lease of a task that is not
\* terminal, the lease row is gone, the task is queued with the attempt it
\* had, a lease.expired receipt and no task.result_ready receipt is added,
\* and a claim that selects the task afterwards is granted it.
C7_SweepRestoresTask ==
    [][/\ \A i \in Instances : \A t \in DOMAIN buf[i].wtask :
            (SweepCommits(i) /\ ~is_terminal(tasks[t].status)) =>
                /\ \A l \in leases' : l.task # t
                /\ tasks'[t].status = "queued"
                /\ tasks'[t].attempt = tasks[t].attempt
                /\ \E k \in NewReceipts :
                       receipts'[k].task = t /\ receipts'[k].type = "lease.expired"
                /\ \A k \in NewReceipts :
                       receipts'[k].task = t => receipts'[k].type # "task.result_ready"
       /\ \A w \in Workers :
            (pc[w] = "claim_commit" /\ pc'[w] = "ret") => out'[w] = "granted"]_vars

\* ---------------------------------------------------------------------- C8
SessionSteps(i) == pc'[i] # pc[i] \/ loc'[i] # loc[i] \/ buf'[i] # buf[i]

\* C8: a step of expire_leases on process A leaves the status, the
\* next_eligible_at and the lease of every task that another instance owns
\* as they were and adds no receipt for it, whatever A's instance id is.
C8_SweepStaysOnOwnTasks ==
    [][\A t \in TaskIds :
          (SessionSteps("A") /\ tasks[t].status # "absent" /\ tasks[t].inst # instance_id["A"]) =>
              /\ tasks'[t].status = tasks[t].status
              /\ tasks'[t].nea = tasks[t].nea
              /\ {l \in leases' : l.task = t} = LeasesOf(t)
              /\ \A k \in NewReceipts : receipts'[k].task # t]_vars

\* ---------------------------------------------------------------------- C9
LeaseIds == 1..(MaxLeases + 1)

ExpiredLease(k) == \E l \in leases : l.id = k /\ l.expires_at < now

\* C9: with the sweep loop scheduled fairly, every lease whose expires_at has
\* passed is eventually deleted, and a task that is not terminal and whose
\* lease has expired is eventually queued again.
C9_ExpiredLeaseGoesAway ==
    /\ \A k \in LeaseIds : ExpiredLease(k) ~> (\A l \in leases : l.id # k)
    /\ \A t \in TaskIds :
          ((\E l \in LeasesOf(t) : l.expires_at < now) /\ ~is_terminal(tasks[t].status))
              ~> (tasks[t].status = "queued" \/ is_terminal(tasks[t].status))

\* --------------------------------------------------------------------- C10
\* worker w calls complete with a lease that has expired or is gone
CompleteWithExpiredLease(w) ==
    /\ pc[w] = "idle"
    /\ pc'[w] # "idle"
    /\ loc'[w].op = "complete"
    /\ \A l \in leases : l.id = held[w].id => l.expires_at <= now

\* C10: complete called with an expired lease, swept or not, fails with
\* LeaseInvalidOrExpired and changes no task row, no lease row and nothing
\* in the ledger; a task the sweeper requeued stays queued.
C10_ExpiredCompleteRejected ==
    [][\A w \in Workers :
          CompleteWithExpiredLease(w) =>
              /\ pc'[w] = "ret"
              /\ out'[w] = "LeaseInvalidOrExpired"
              /\ tasks' = tasks /\ leases' = leases /\ receipts' = receipts
              /\ buf'[w] = EmptyBuf]_vars

C10_Witness ==
    /\ pc["w1"] = "ret" /\ out["w1"] = "LeaseInvalidOrExpired"
    /\ loc["w1"].op = "complete"
    /\ tasks["t1"].status = "queued"
    /\ \E i \in 1..Len(receipts) : receipts[i].type = "lease.expired"

\* --------------------------------------------------------------------- C11
\* session s ends a renew call with success
RenewSucceeds(s) == pc[s] = "renew_update" /\ pc'[s] = "ret" /\ out'[s] = "ok"

\* C11: a renew call succeeds only on a lease whose renewal_count is below
\* max_lease_renewals and whose lifetime is below max_lease_lifetime, and
\* no lease ever has a renewal_count above max_lease_renewals, also when
\* renew calls for the same lease overlap.
C11_RenewalLimits ==
    /\ [](\A l \in leases : l.renewal_count <= max_lease_renewals)
    /\ [][\A s \in Workers :
            RenewSucceeds(s) =>
                \A l \in leases :
                    l.id = loc[s].lease =>
                        /\ l.renewal_count < max_lease_renewals
                        /\ loc[s].rnow - l.acquired_at < max_lease_lifetime]_vars

\* --------------------------------------------------------------------- C12
\* the renew call of session s reads a lease row whose expires_at has passed
RenewReadsExpired(s) ==
    /\ pc[s] = "renew_select"
    /\ pc'[s] # "renew_select"
    /\ \E l \in leases : l.id = loc[s].lease /\ l.expires_at <= now

\* C12: renew_lease on a lease that has expired and is not yet swept fails
\* with LeaseInvalidOrExpired and leaves expires_at and renewal_count alone.
C12_ExpiredRenewRejected ==
    [][\A s \in Workers :
          RenewReadsExpired(s) =>
              /\ pc'[s] = "ret"
              /\ out'[s] = "LeaseInvalidOrExpired"
              /\ leases' = leases]_vars

\* --------------------------------------------------------------------- C13
\* C13: a lease that still validates is no older than max_lease_lifetime,
\* and no step changes the acquired_at of a lease.
C13_LifetimeBounded ==
    /\ [](\A l \in leases :
             l.expires_at > now => now - l.acquired_at <= max_lease_lifetime)
    /\ [][\A l \in leases : \A m \in leases' :
             m.id = l.id => m.acquired_at = l.acquired_at]_vars

\* --------------------------------------------------------------------- C14
\* C14: in every reachable state a task whose status is succeeded, failed or
\* canceled has its result set and has no lease row.
C14_TerminalHasResultNoLease ==
    \A t \in TaskIds :
        is_terminal(tasks[t].status) =>
            /\ tasks[t].result # "none"
            /\ LeasesOf(t) = {}

\* --------------------------------------------------------------------- C15
\* agent a has been answered by create_task for idempotency key k
CreateAnswered(a, k) ==
    pc[a] = "ret" /\ out[a] = "ok" /\ loc[a].op = "create" /\ loc[a].key = k

RowsWithKey(k) == {t \in TaskIds : tasks[t].status # "absent" /\ tasks[t].key = k}

\* C15: create_task calls with the same idempotency key, one after the other
\* or at the same time, are answered with the task that holds the key, which
\* is the same for all of them: exactly one task row carries the key, and a
\* row never changes its key.
C15_IdempotentCreate ==
    /\ [](\A k \in Keys \ {""} : \A a \in Agents :
             CreateAnswered(a, k) =>
                 /\ RowsWithKey(k) = {loc[a].task}
                 /\ \A b \in Agents : CreateAnswered(b, k) => loc[b].task = loc[a].task)
    /\ [](\A k \in Keys \ {""} : Cardinality(RowsWithKey(k)) <= 1)
    /\ [][\A t \in TaskIds :
             tasks[t].status # "absent" => tasks'[t].key = tasks[t].key]_vars

C15_Witness ==
    /\ CreateAnswered("agent", "k1")
    /\ CreateAnswered("agent2", "k1")
    /\ Cardinality(RowsWithKey("k1")) = 1

\* --------------------------------------------------------------------- C16
AssignedReceipts(t) ==
    {i \in 1..Len(receipts) : receipts[i].type = "task.assigned" /\ receipts[i].task = t}

\* C16: create_task calls that repeat an idempotency key leave one
\* task.assigned receipt for the task.
C16_OneAssignedReceipt ==
    \A t \in TaskIds : Cardinality(AssignedReceipts(t)) <= 1

\* --------------------------------------------------------------------- C17
\* session s has just been answered by ReceiptRepository.create
EmitAnswered(s) ==
    pc[s] = "idle" /\ pc'[s] = "ret" /\ loc'[s].op = "emit" /\ out'[s] = "ok"

\* the rows already stored that are the receipt session s has just emitted:
\* same type, task, lease, recipient and body, and the same parents as a set
SameAsEmitted(s) ==
    {i \in 1..Len(receipts) :
        /\ receipts[i].tenant = loc'[s].tenant
        /\ receipts[i].type = loc'[s].type
        /\ receipts[i].task = loc'[s].task
        /\ receipts[i].lease = loc'[s].lease
        /\ receipts[i].body = loc'[s].body
        /\ receipts[i].parents = ParentIds(loc'[s].parents)
        /\ StoredParents(loc'[s].type, ParentIds(loc'[s].parents),
                         loc'[s].body = "art") = ParentIds(loc'[s].parents)}

\* C17: emitting a receipt that is already stored (same type, task, lease,
\* principals and body, its parents the same set in any order) stores no
\* further row, and the call returns the stored receipt.
C17_SameReceiptOneRow ==
    [][\A s \in Clients :
          EmitAnswered(s) /\ SameAsEmitted(s) # {} =>
              /\ receipts' = receipts
              /\ loc'[s].receipt_id \in SameAsEmitted(s)]_vars

\* --------------------------------------------------------------------- C18
\* two stored rows that are the same except for their parents
DifferOnlyInParents(i, j) ==
    /\ receipts[i].tenant = receipts[j].tenant
    /\ receipts[i].type = receipts[j].type
    /\ receipts[i].task = receipts[j].task
    /\ receipts[i].lease = receipts[j].lease
    /\ receipts[i].to = receipts[j].to
    /\ receipts[i].body = receipts[j].body
    /\ receipts[i].parents # receipts[j].parents

\* C18: emissions that differ only in their parents are stored as distinct
\* rows with distinct hashes: the later one is stored as a new row, and the
\* two rows do not carry the same hash.
C18_ParentsChangeHash ==
    /\ [][\A s \in Clients :
             (/\ EmitAnswered(s)
              /\ SameAsEmitted(s) = {}
              /\ StoredParents(loc'[s].type, ParentIds(loc'[s].parents),
                               loc'[s].body = "art") = ParentIds(loc'[s].parents))
                 => loc'[s].receipt_id = Len(receipts) + 1]_vars
    /\ [](\A i, j \in 1..Len(receipts) :
             DifferOnlyInParents(i, j) => receipts[i].hash # receipts[j].hash)

\* --------------------------------------------------------------------- C19
\* worker w's fail call with retryable=true commits in this step
RetryableFailCommits(w) ==
    /\ pc[w] \in {"fail_requeue_update", "fail_update"}
    /\ loc[w].retry
    /\ pc'[w] = "ret"
    /\ out'[w] = "ok"

NewReceiptTypes == {receipts'[i].type : i \in NewReceipts}

\* C19: a retryable failure either requeues the task, with an attempt count
\* still below max_attempts and a task.retry_scheduled receipt, or it is the
\* max_attempts-th failure and terminal: the task is failed with
\* attempt = max_attempts, and task.failed and task.result_ready are emitted.
C19_LastAttemptTerminal ==
    [][\A w \in Workers :
          RetryableFailCommits(w) =>
              LET t == loc[w].task
              IN \/ /\ tasks'[t].status = "queued"
                    /\ tasks'[t].attempt < tasks'[t].max_attempts
                    /\ NewReceiptTypes = {"task.retry_scheduled"}
                 \/ /\ tasks'[t].status = "failed"
                    /\ tasks'[t].attempt = tasks'[t].max_attempts
                    /\ NewReceiptTypes = {"task.failed", "task.result_ready"}]_vars

\* --------------------------------------------------------------------- C20
\* session s commits, in this step, a complete that carries artifacts, the
\* terminal branch of fail, or a cancel_task
TerminalCommits(s) ==
    /\ pc'[s] = "ret"
    /\ out'[s] = "ok"
    /\ \/ pc[s] = "complete_release" /\ loc[s].art
       \/ pc[s] = "fail_update"
       \/ pc[s] = "cancel_update"

\* C20: once complete (with artifacts or delivery_proof), the terminal
\* branch of fail, or cancel_task has succeeded for a task, the task has a
\* task.assigned receipt, has_terminator is true of it, and
\* list_open_obligations of its owner does not return it.
C20_TerminalClosesObligation ==
    [][\A s \in Clients :
          TerminalCommits(s) =>
              /\ AssignedReceipts(loc[s].task) # {}
              /\ \A o \in AssignedReceipts(loc[s].task) :
                    /\ has_terminator(o)'
                    /\ o \notin list_open_obligations(Owner)']_vars

C20_Witness ==
    \E w \in Workers :
        /\ pc[w] = "ret"
        /\ out[w] = "ok"
        /\ loc[w].op = "complete"
        /\ loc[w].art
        /\ AssignedReceipts(loc[w].task) # {}
        /\ \A o \in AssignedReceipts(loc[w].task) :
              has_terminator(o) /\ o \notin list_open_obligations(Owner)

\* --------------------------------------------------------------------- C21
\* every open obligation addressed to the principal
OpenObligations(to) ==
    {i \in 1..Len(receipts) :
        /\ receipts[i].to = to
        /\ receipts[i].type \in DOMAIN TERMINATION_RULES
        /\ ~\E j \in 1..Len(receipts) : i \in receipts[j].parents}

\* client s has followed the cursor to its end
PagingDone(s) == pc[s] = "ret" /\ loc[s].op = "page"

\* C21: a client that pages list_open_obligations from the start until the
\* cursor is null has been given every open obligation of the principal,
\* each exactly once.
C21_PagingComplete ==
    \A s \in Agents :
        PagingDone(s) =>
            /\ {loc[s].listed[k] : k \in 1..Len(loc[s].listed)} = OpenObligations(Owner)
            /\ Len(loc[s].listed) = Cardinality(OpenObligations(Owner))

\* --------------------------------------------------------------------- C22
\* a complete call without artifacts or delivery_proof commits in this step
CompletesWithoutEvidence ==
    \E s \in Workers : pc[s] = "complete_release" /\ pc'[s] = "ret" /\ ~loc[s].art

ReceiptTypesOf(t) == {receipts[i].type : i \in {j \in 1..Len(receipts) : receipts[j].task = t}}

Positions(t, T) ==
    {i \in 1..Len(receipts) : receipts[i].task = t /\ receipts[i].type \in T}

LeaseReceiptTypes ==
    {"task.started", "task.progress", "task.completed", "task.failed",
     "task.retry_scheduled"}

TerminatorTypes == {"task.completed", "task.failed", "task.canceled"}

\* task.assigned first; task.accepted before the other receipts of its
\* lease; task.result_ready after a terminator
LedgerOrdered(t) ==
    /\ \A i \in Positions(t, {"task.assigned"}) :
          \A j \in 1..Len(receipts) :
              receipts[j].task = t /\ receipts[j].type # "task.assigned" => i < j
    /\ \A j \in Positions(t, LeaseReceiptTypes) :
          \E i \in Positions(t, {"task.accepted"}) :
              receipts[i].lease = receipts[j].lease /\ i < j
    /\ \A j \in Positions(t, {"task.result_ready"}) :
          \E i \in Positions(t, TerminatorTypes) : i < j

\* the types of the receipts in the ledger, in order
LedgerTypes == [i \in 1..Len(receipts) |-> receipts[i].type]

\* worker w has been answered by a complete that carried an artifact and a
\* valid lease, called after create, claim and start and nothing else
HappyPathCompleteAnswered(w) ==
    /\ pc[w] = "ret"
    /\ loc[w].op = "complete"
    /\ loc[w].art
    /\ out[w] # "LeaseInvalidOrExpired"
    /\ Len(receipts) >= 3
    /\ SubSeq(LedgerTypes, 1, 3) = <<"task.assigned", "task.accepted", "task.started">>
    /\ \A i \in 4..Len(receipts) :
          receipts[i].type \in {"task.completed", "task.result_ready"}

\* C23: the ledger of a task is ordered (task.assigned first, task.accepted
\* before the receipts of its lease, task.result_ready after the terminator),
\* and after create, claim, start and complete with an artifact the ledger
\* is exactly task.assigned, task.accepted, task.started, task.completed,
\* task.result_ready.
C23_LedgerOrder ==
    /\ \A t \in TaskIds : LedgerOrdered(t)
    /\ \A w \in Workers :
          HappyPathCompleteAnswered(w) =>
              LedgerTypes = <<"task.assigned", "task.accepted", "task.started",
                              "task.completed", "task.result_ready">>

\* --------------------------------------------------------------------- C24
\* session s is answered, in this step, by ReceiptRepository.create for a
\* terminator type with no parents or with a parent that is not a receipt of
\* the tenant
BadTerminatorEmitted(s) ==
    /\ pc[s] = "idle"
    /\ pc'[s] = "ret"
    /\ loc'[s].op = "emit"
    /\ loc'[s].type \in {"task.completed", "task.failed", "task.canceled"}
    /\ \/ loc'[s].parents = <<>>
       \/ \E k \in 1..Len(loc'[s].parents) :
             LET p == loc'[s].parents[k]
             IN p > Len(receipts) \/ receipts[p].tenant # loc'[s].tenant

\* C24: a receipt of terminator type emitted with no parents, or with a
\* parent that is not a receipt of the same tenant, is rejected and no row
\* is stored.
C24_TerminatorNeedsParents ==
    [][\A s \in Clients :
          BadTerminatorEmitted(s) =>
              out'[s] = "ValueError" /\ receipts' = receipts]_vars

C24_Witness ==
    /\ pc["agent"] = "ret"
    /\ out["agent"] = "ValueError"
    /\ loc["agent"].op = "emit"
    /\ loc["agent"].type = "task.completed"
    /\ loc["agent"].parents = <<1>>
    /\ Len(receipts) >= 1
    /\ receipts[1].tenant # loc["agent"].tenant

\* --------------------------------------------------------------------- C25
\* client a calls cancel_task in this step
CancelCalled(a) == pc[a] = "idle" /\ pc'[a] # "idle" /\ loc'[a].op = "cancel"

\* the recipient of the task.assigned receipt of task t
ObligationOwner(t) == receipts[CHOOSE i \in AssignedReceipts(t) : TRUE].to

\* the caller of a's cancel_task is not internal, and the task is owned by
\* the system or by another principal
CallerNotAllowed(a) ==
    /\ AssignedReceipts(loc'[a].task) # {}
    /\ ~loc'[a].internal
    /\ \/ ObligationOwner(loc'[a].task) = SYSTEM_PRINCIPAL_ID
       \/ ObligationOwner(loc'[a].task) # normalize_external(loc'[a].principal)

\* C25: cancel_task called by a principal that is not internal and is not
\* the owner of the obligation, or on a system-owned task, fails with
\* Unauthorized; no receipt is emitted and the task and its lease are
\* unchanged.
C25_CancelUnauthorized ==
    [][\A a \in Clients :
          CancelCalled(a) /\ CallerNotAllowed(a) =>
              /\ pc'[a] = "ret"
              /\ out'[a] = "Unauthorized"
              /\ UNCHANGED <<tasks, leases, receipts>>]_vars

C25_Witness ==
    /\ pc["agent2"] = "ret"
    /\ out["agent2"] = "Unauthorized"
    /\ loc["agent2"].op = "cancel"
    /\ loc["agent2"].principal = "a2"
    /\ ~loc["agent2"].internal
    /\ tasks["t1"].status = "leased"
    /\ LeasesOf("t1") # {}
    /\ Len(receipts) = 2

\* --------------------------------------------------------------------- C26
\* the caller of a's cancel_task is internal or the owner of the obligation
CallerAllowed(a) ==
    /\ AssignedReceipts(loc'[a].task) # {}
    /\ \/ loc'[a].internal
       \/ /\ ObligationOwner(loc'[a].task) # SYSTEM_PRINCIPAL_ID
          /\ ObligationOwner(loc'[a].task) = normalize_external(loc'[a].principal)

ClaimRuns(w) == pc[w] = "idle" /\ pc'[w] # "idle" /\ loc'[w].op = "claim"

\* the tasks that claim leases
ClaimedBy(w) == {g.task : g \in loc'[w].got}

\* task u is unlocked, eligible and queued, and matches the accept_types and
\* capabilities of w's claim
CouldLease(w, u) ==
    /\ tasks[u].status = "queued"
    /\ tasks[u].nea = NoTime \/ tasks[u].nea <= now
    /\ \A o \in Sessions \ {w} : u \notin buf[o].tlock
    /\ loc'[w].accept_types = {} \/ tasks[u].type \in loc'[w].accept_types
    /\ \/ tasks[u].capabilities = {}
       \/ /\ loc'[w].capabilities # {}
          /\ tasks[u].capabilities \subseteq loc'[w].capabilities

\* higher priority, or equal priority and earlier created_at
Precedes(u, t) ==
    \/ tasks[u].prio > tasks[t].prio
    \/ tasks[u].prio = tasks[t].prio /\ tasks[u].created < tasks[t].created

\* C27: a claim never leases a task while it leaves queued another task that
\* is unlocked, eligible, matches the worker's accept_types and capabilities
\* and precedes it in (priority descending, created_at ascending) order.
C27_PriorityOrder ==
    [][\A w \in Workers :
          ClaimRuns(w) =>
              \A t \in ClaimedBy(w) : \A u \in TaskIds \ ClaimedBy(w) :
                  ~(CouldLease(w, u) /\ Precedes(u, t))]_vars

C27_Witness ==
    /\ pc["w1"] = "ret"
    /\ out["w1"] = "granted"
    /\ loc["w1"].got = {[id |-> 1, task |-> "t2"]}
    /\ loc["w1"].capabilities = {"gpu"}
    /\ tasks["t2"].prio > tasks["t1"].prio
    /\ tasks["t2"].capabilities = {"gpu"}
    /\ tasks["t1"].status = "queued"
    /\ tasks["t1"].capabilities = {}

\* --------------------------------------------------------------------- C28
\* session s has a start_task call that answered ok and has not returned yet
StartAnswered(s) == pc[s] = "ret" /\ loc[s].op = "start" /\ out[s] = "ok"

\* the task.started receipts of lease l
StartedReceipts(l) ==
    {i \in 1..Len(receipts) :
        receipts[i].type = "task.started" /\ receipts[i].lease = l}

\* C28: start_task is idempotent for a valid lease: once a call answered ok
\* the task is running, every call answers the started_at stored on the
\* task, any two calls for the same lease answer the same started_at, and
\* the lease has exactly one task.started receipt.
C28_StartIdempotent ==
    \A s \in Sessions :
        StartAnswered(s) =>
            /\ tasks[loc[s].task].status = "running"
            /\ loc[s].started_at = tasks[loc[s].task].started_at
            /\ \A o \in Sessions :
                   StartAnswered(o) /\ loc[o].lease = loc[s].lease =>
                       loc[o].started_at = loc[s].started_at
            /\ Cardinality(StartedReceipts(loc[s].lease)) = 1

\* --------------------------------------------------------------------- C29
\* the sweeper's commit on instance i requeues task t, which was running
SweeperRequeuesRunning(i, t) ==
    /\ SweepCommits(i)
    /\ tasks[t].status = "running"
    /\ tasks'[t] # tasks[t]

\* C29: when the sweeper requeues a running task whose lease expired, the
\* task becomes queued and its started_at is null.
C29_RequeueResetsStartedAt ==
    [][\A i \in Instances : \A t \in TaskIds :
          SweeperRequeuesRunning(i, t) =>
              tasks'[t].status = "queued" /\ tasks'[t].started_at = NoTime]_vars

\* --------------------------------------------------------------------- C30
\* worker w's complete, whose lease was validated, reads its task as running
\* and answers in this step
CompleteReadsRunning(w) ==
    /\ pc[w] = "complete_get"
    /\ ReadTask(w, loc[w].task).status = "running"
    /\ pc'[w] # "complete_get"

\* the relation of Task.can_transition_to around the running status
RunningRelation ==
    /\ can_transition_to("leased", "running")
    /\ can_transition_to("running", "succeeded")
    /\ can_transition_to("running", "queued")
    /\ ~can_transition_to("queued", "running")

\* C30: the transition relation permits leased -> running, running ->
\* succeeded and running -> queued and rejects queued -> running, and complete
\* with a valid lease is not refused on a task in running status.
C30_RunningTransitions ==
    [][\A w \in Workers :
          CompleteReadsRunning(w) =>
              RunningRelation /\ out'[w] # "InvalidStateTransition"]_vars

\* --------------------------------------------------------------------- C31
\* session s's ack_receipt answers in this step
AckAnswers(s) ==
    pc[s] = "idle" /\ pc'[s] = "ret" /\ loc'[s].type = "receipt.acknowledged"

\* the stored acknowledgements of receipt r by principal p in a tenant
AcksOf(tenant, r, p) ==
    {i \in 1..Len(receipts) :
        /\ receipts[i].type = "receipt.acknowledged"
        /\ receipts[i].tenant = tenant
        /\ receipts[i].from = p
        /\ receipts[i].parents = {r}}

\* C31: every ack_receipt stores a new receipt.acknowledged row whose parents
\* are exactly the acknowledged receipt, also when the same principal has
\* acknowledged the same receipt before; acknowledgements are never merged.
C31_AckAppends ==
    [][\A s \in Sessions :
          AckAnswers(s) =>
              /\ out'[s] = "ok"
              /\ Len(receipts') = Len(receipts) + 1
              /\ SubSeq(receipts', 1, Len(receipts)) = receipts
              /\ receipts'[Len(receipts')].type = "receipt.acknowledged"
              /\ receipts'[Len(receipts')].parents = ParentIds(loc'[s].parents)
              /\ loc'[s].receipt_id = Len(receipts')]_vars

C31_Witness ==
    /\ Len(receipts) >= 1
    /\ receipts[1].type = "task.assigned"
    /\ Cardinality(AcksOf(receipts[1].tenant, 1, "a1")) = 2

\* --------------------------------------------------------------------- C32
\* worker w is inside complete or fail with a lease that is gone, and another
\* worker holds a newer lease on the same task
Superseded(w) ==
    /\ pc[w] \notin {"idle", "ret"}
    /\ loc[w].op \in {"complete", "fail"}
    /\ \A l \in leases : l.id # loc[w].lease
    /\ \E l \in leases : l.task = loc[w].task /\ l.worker # w

\* C32: a worker whose lease expired, was swept and was superseded by another
\* worker's lease changes neither the task's status nor the other worker's
\* lease when its complete or fail answers, even if the call validated the
\* old lease before the expiry.
C32_StaleWorkerHarmless ==
    [][\A w \in Workers :
          Superseded(w) /\ pc'[w] = "ret" =>
              /\ tasks'[loc[w].task].status = tasks[loc[w].task].status
              /\ \A l \in leases : l.task = loc[w].task => l \in leases']_vars

\* --------------------------------------------------------------------- C33
\* C33: in every committed state a task has a lease row exactly when its
\* status is leased or running.
C33_LeaseIffLeased ==
    \A t \in TaskIds :
        (\E l \in leases : l.task = t) <=> tasks[t].status \in {"leased", "running"}

\* --------------------------------------------------------------------- C34
\* C34: a stored task.canceled, task.completed or task.failed receipt belongs
\* to a task whose status is canceled, succeeded or failed respectively.
C34_TerminatorAgreesWithStatus ==
    \A i \in 1..Len(receipts) :
        receipts[i].type \in {"task.canceled", "task.completed", "task.failed"} =>
            TerminatorOf(tasks[receipts[i].task].status) = receipts[i].type

\* --------------------------------------------------------------------- C35
\* the statement the sweeper of instance i waits in is aborted in this step
SweepFails(i) == Deadlocked(i) /\ pc'[i] # pc[i]

\* the lease.expired receipts buffered by session s
BufferedExpiries(s) ==
    {buf[s].rc[k].lease : k \in {n \in 1..Len(buf[s].rc) : buf[s].rc[n].type = "lease.expired"}}

\* C35: when expiring one lease fails, only that lease's savepoint is rolled
\* back: nothing is committed by the failure, the sweeper's transaction keeps
\* no write, lease delete or receipt for that lease and does not count it,
\* the work done for earlier leases is kept, and the sweep goes on with the
\* remaining leases.
C35_SweepFailureIsLocal ==
    [][\A i \in Instances :
          SweepFails(i) =>
              /\ pc'[i] = "sweep_loop"
              /\ tasks' = tasks /\ leases' = leases /\ receipts' = receipts
              /\ loc[i].task \notin DOMAIN buf'[i].wtask
              /\ loc[i].task \notin buf'[i].tlock
              /\ loc[i].cur.id \notin buf'[i].del
              /\ loc[i].cur.id \notin BufferedExpiries(i)'
              /\ loc'[i].count = loc[i].count
              /\ buf'[i] = loc[i].sp
              /\ loc'[i].todo = loc[i].todo \ {loc[i].cur}]_vars

\* both leases were fetched by one pass; the pass failed on the lease of one
\* task, which is still leased with its lease row, and went on to expire the
\* other lease
C35_Witness ==
    /\ pc["A"] = "sweep_loop"
    /\ loc["A"].todo = {}
    /\ loc["A"].count = 1
    /\ Cardinality(BufferedExpiries("A")) = 1
    /\ Cardinality(leases) = 2
    /\ \A l, m \in leases : l.expires_at = m.expires_at
    /\ \E l \in leases :
          /\ l.id \notin BufferedExpiries("A")
          /\ l.id \notin buf["A"].del
          /\ tasks[l.task].status = "leased"

\* --------------------------------------------------------------------- C36
\* C36: a claim for at least one task by a worker whose accept_types and
\* capabilities cover some unlocked, eligible queued task is granted a lease,
\* whatever is ordered ahead of that task in the queue.
C36_MatchingTaskIsGranted ==
    [][\A w \in Workers :
          ClaimRuns(w) /\ (\E u \in TaskIds : CouldLease(w, u)) =>
              ClaimedBy(w) # {}]_vars


\* the call of s finished with a failure, with a success; a manual reset
FailureOf(s) == pc[s] = "call_func" /\ pc'[s] = "ret" /\ out'[s] = "error"

SuccessOf(s) == pc[s] = "call_func" /\ pc'[s] = "ret" /\ out'[s] = "ok"

EntersCall(s) == pc[s] = "idle" /\ loc'[s].op = "call"

ManualReset == pc' = pc /\ now' = now

\* C39: the circuit breaker changes state only as documented, also when a
\* call admitted in one state finishes in another. CLOSED -> OPEN happens on
\* the failure that makes failure_threshold consecutive failures, OPEN ->
\* HALF_OPEN on a call made timeout_seconds or more after the breaker opened,
\* HALF_OPEN -> CLOSED on the success that makes success_threshold
\* consecutive successes or on a manual reset, HALF_OPEN -> OPEN on a
\* failure, OPEN -> CLOSED on a manual reset; there is no other change, and a
\* breaker that opens records the time it opened.
C39_TransitionsAsDocumented ==
    [][breaker'.state # breaker.state =>
         LET from == breaker.state
             to == breaker'.state
             cfg == breaker.config
         IN \/ /\ from = "closed" /\ to = "open"
               /\ \E s \in Callers : FailureOf(s)
               /\ breaker.failure_count + 1 = cfg.failure_threshold
               /\ breaker'.opened_at = now
            \/ /\ from = "open" /\ to = "half_open"
               /\ \E s \in Callers : EntersCall(s)
               /\ breaker.opened_at # NoTime
               /\ now - breaker.opened_at >= cfg.timeout_seconds
            \/ /\ from = "half_open" /\ to = "closed"
               /\ \/ ManualReset
                  \/ /\ \E s \in Callers : SuccessOf(s)
                     /\ breaker.success_count + 1 = cfg.success_threshold
            \/ /\ from = "half_open" /\ to = "open"
               /\ \E s \in Callers : FailureOf(s)
               /\ breaker'.opened_at = now
            \/ /\ from = "open" /\ to = "closed"
               /\ ManualReset]_vars

\* a call admitted while the breaker was closed failed after it had opened
C39_Witness ==
    /\ breaker.state = "open"
    /\ breaker.failure_count > breaker.config.failure_threshold

\* C40: provided every admitted call returns, a breaker in HALF_OPEN
\* eventually moves to CLOSED or OPEN, whatever the positive thresholds;
\* it does not stay half-open rejecting every further call
C40_HalfOpenLeaves ==
    (breaker.state = "half_open") ~> (breaker.state # "half_open")


\* the lease table holds an unexpired lease of task t with this id and worker
HoldsValidLease(t, lease_id, w) ==
    \E l \in leases :
        l.task = t /\ l.id = lease_id /\ l.worker = w /\ l.expires_at > now

\* session s enters start_task or report_progress
EntersLeaseCall(s) ==
    pc[s] = "idle" /\ pc'[s] # "idle" /\ loc'[s].op \in {"start", "progress"}

\* C37: report_progress or start_task called with a task id, lease id and
\* worker id for which there is no unexpired lease (none at all, an expired
\* one, another worker's, another id) fails with LeaseInvalidOrExpired at
\* once; the call writes no progress row, emits no receipt and changes no
\* task
C37_NoLeaseNoEffect ==
    [][\A s \in Workers :
         (/\ EntersLeaseCall(s)
          /\ ~HoldsValidLease(loc'[s].task, loc'[s].lease, loc'[s].worker))
         => /\ pc'[s] = "ret"
            /\ out'[s] = "LeaseInvalidOrExpired"
            /\ buf'[s] = EmptyBuf
            /\ tasks' = tasks
            /\ receipts' = receipts
            /\ progress' = progress
            /\ leases' = leases]_vars

\* report_progress was refused for a live lease presented by another worker
C37_Witness ==
    \E s \in Workers :
        /\ pc[s] = "ret"
        /\ out[s] = "LeaseInvalidOrExpired"
        /\ loc[s].op = "progress"
        /\ \E l \in leases :
              /\ l.task = loc[s].task
              /\ l.id = loc[s].lease
              /\ l.worker # loc[s].worker
              /\ l.expires_at > now


\* fail of worker w commits its retry branch
FailRequeues(w) ==
    pc[w] = "fail_requeue_update" /\ pc'[w] = "ret" /\ out'[w] = "ok"

\* min(retry_backoff_seconds * 2^(attempt - 1), max_backoff)
RetryDelay(attempt) ==
    IF RetryBackoff * 2^(attempt - 1) < MaxRetryBackoff
    THEN RetryBackoff * 2^(attempt - 1)
    ELSE MaxRetryBackoff

\* worker w has been answered that its task was requeued for a retry
RetryScheduled(w) ==
    pc[w] = "ret" /\ out[w] = "ok" /\ loc[w].op = "fail" /\ loc[w].requeue

\* the claim of worker c commits with a lease of task t
Grants(c, t) ==
    /\ pc[c] = "claim_commit"
    /\ out'[c] = "granted"
    /\ t \in {g.task : g \in loc[c].got}

\* C38: the retry branch of fail requeues the task with the attempt counter
\* one higher than the row had and next_eligible_at = now + min(base *
\* 2^(attempt' - 1), max_backoff), now being the clock read of the requeue;
\* and no claim is granted the task before that instant
C38_RetrySchedule ==
    [][/\ \A w \in Workers :
            FailRequeues(w) =>
                LET t == loc[w].task
                IN /\ tasks'[t].status = "queued"
                   /\ tasks'[t].attempt = tasks[t].attempt + 1
                   /\ tasks'[t].nea = loc[w].rnow + RetryDelay(tasks'[t].attempt)
       /\ \A w, c \in Workers :
            (RetryScheduled(w) /\ Grants(c, loc[w].task)) =>
                now >= loc[w].rnow + RetryDelay(loc[w].ratt)]_vars

====
